---- MODULE Spec2Model ----
(***************************************************************************)
(* A model of the ledger engine of zeroed-books-api: currency parsing and  *)
(* formatting (ledger/domain/currency.rs), the two transaction             *)
(* constructors (ledger/domain/transactions.rs and                         *)
(* ledger/domain/transactions/new_transaction.rs) and the HTTP conversion  *)
(* that feeds the first of them (ledger/http/reps.rs).                     *)
(*                                                                         *)
(* The constructors and the currency functions are pure: each action      *)
(* draws an input from a bounded set, applies the function as the code    *)
(* computes it, and records input and result in the state.                *)
(*                                                                         *)
(* The store (ledger/commands/postgres.rs, repos/transactions.rs,          *)
(* ledger/queries/postgres.rs) is a state machine over the tables          *)
(* transaction, transaction_entry and account: writes go statement by      *)
(* statement and reach the tables at their commit, reads go query by       *)
(* query.  The handlers of ledger/http/handlers.rs call them.  The rate    *)
(* limiter (rate_limit/redis.rs) is a state machine over its Redis keys.   *)
(*                                                                         *)
(* i32 arithmetic keeps its width.  `+=`, unary `-` and `abs` on i32 panic *)
(* when the build has overflow checks (the dev profile) and wrap modulo    *)
(* 2^32 when it has not (the release profile); overflow_checks is the      *)
(* build the program runs as.                                              *)
(***************************************************************************)
EXTENDS Integers, Sequences, FiniteSets, TLC

VARIABLES
    pc,                 \* which operation has run: "start" before any
    overflow_checks,    \* TRUE: arithmetic overflow panics; FALSE: it wraps
    data,               \* the NewTransactionData / entry list given to a constructor
    result,             \* what the constructor returned
    rep,                \* the reps::NewTransaction given to try_into_domain
    response,           \* what try_into_domain returned
    currency,           \* the Currency of a parse_amount / format_value call
    raw_amount,         \* the text given to parse_amount
    parsed,             \* what parse_amount returned
    value,              \* the i32 given to format_value
    formatted,          \* what format_value returned
    transaction,        \* the committed rows of table transaction
    transaction_entry,  \* the committed rows of table transaction_entry
    account,            \* the committed rows of table account
    now,                \* the database clock that stamps created_at
    next_id,            \* the next transaction id the database generates
    writer,             \* per connection: the write call in progress
    reader,             \* the client that lists transactions page by page
    inputs,             \* the users, dates, entry lists ... calls draw from
    committed,          \* per transaction id: the call that last committed it
    cache,              \* the rate limiter's Redis keys: hits and expiry
    clock,              \* the time in seconds (Utc::now and Redis' clock)
    max_req_per_min,    \* the limit the is_limited calls are made with
    caller,             \* per caller of is_limited: the call in progress
    allowed             \* per cache key: the NotLimited results so far

storeVars == <<transaction, transaction_entry, account, now, next_id, writer,
               reader, inputs, committed>>

rateVars == <<cache, clock, max_req_per_min, caller, allowed>>

vars == <<pc, overflow_checks, data, result, rep, response,
          currency, raw_amount, parsed, value, formatted,
          transaction, transaction_entry, account, now, next_id, writer,
          reader, inputs, committed,
          cache, clock, max_req_per_min, caller, allowed>>

(***************************************************************************)
(* i32                                                                     *)
(***************************************************************************)
MaxI32 == 2147483647
MinI32 == -2147483647 - 1

\* a + b leaves the i32 range (decided without leaving it)
AddOverflows(a, b) ==
    \/ b > 0 /\ a > MaxI32 - b
    \/ b < 0 /\ a < MinI32 - b

\* a + b modulo 2^32, as a two's complement i32
WrappingAdd(a, b) ==
    IF b > 0 /\ a > MaxI32 - b THEN (a - MaxI32 - 1) + (b - MaxI32 - 1)
    ELSE IF b < 0 /\ a < MinI32 - b THEN (a + MaxI32 + 1) + (b + MaxI32 + 1)
    ELSE a + b

\* -a leaves the i32 range
NegOverflows(a) == a = MinI32

\* -a modulo 2^32
WrappingNeg(a) == IF a = MinI32 THEN MinI32 ELSE -a

(***************************************************************************)
(* Strings.  The validator's length rules need the length of a string.     *)
(***************************************************************************)
StrLen(s) ==
    CASE s = "" -> 0
      [] s \in {"A", "B", "P"} -> 1
      [] s = "US" -> 2
      [] s \in {"USD", "EUR", "JPY", "XXX"} -> 3
      [] OTHER -> 4

(***************************************************************************)
(* Transaction input: NewTransactionData and its entries.  An entry's      *)
(* amount is an Option: `some` tells Some from None.                       *)
(***************************************************************************)
None == [some |-> FALSE, currency |-> "", value |-> 0]
Some(c, v) == [some |-> TRUE, currency |-> c, value |-> v]

\* HashMap::entry(k).or_insert(0) followed by an assignment of v
Insert(map, k, v) == [x \in (DOMAIN map) \cup {k} |-> IF x = k THEN v ELSE map[x]]

\* HashMap lookup with the or_insert(0) default
GetOrZero(map, k) == IF k \in DOMAIN map THEN map[k] ELSE 0

EmptyMap == << >>

\* the currencies of a map whose sum is not zero: .filter(|(_, sum)| **sum != 0)
NonZero(map) == {c \in DOMAIN map : map[c] # 0}

(***************************************************************************)
(* try_balance (new_transaction.rs).  The loop stops at the second entry   *)
(* without an amount; an overflowing sum panics under overflow checks.     *)
(***************************************************************************)
RECURSIVE try_balance_loop(_, _, _, _, _)
try_balance_loop(entries, i, currency_sums, balancing_entry, checks) ==
    IF i > Len(entries)
    THEN [status |-> "summed", currency_sums |-> currency_sums,
          balancing_entry |-> balancing_entry]
    ELSE IF entries[i].amount.some
    THEN LET c == entries[i].amount.currency
             current_value == GetOrZero(currency_sums, c)
             v == entries[i].amount.value
         IN  IF checks /\ AddOverflows(current_value, v)
             THEN [status |-> "panic", currency_sums |-> currency_sums,
                   balancing_entry |-> balancing_entry]
             ELSE try_balance_loop(entries, i + 1,
                                   Insert(currency_sums, c, WrappingAdd(current_value, v)),
                                   balancing_entry, checks)
    ELSE IF balancing_entry # 0
    THEN [status |-> "return", currency_sums |-> currency_sums,
          balancing_entry |-> balancing_entry]
    ELSE try_balance_loop(entries, i + 1, currency_sums, i, checks)

\* [panic, entries]: the entries as try_balance leaves them
try_balance(entries, checks) ==
    LET s == try_balance_loop(entries, 1, EmptyMap, 0, checks)
        unbalanced_sums == NonZero(s.currency_sums)
    IN  IF s.status = "panic" THEN [panic |-> TRUE, entries |-> entries]
        ELSE IF s.status = "return" \/ s.balancing_entry = 0
                \/ Cardinality(unbalanced_sums) # 1
        THEN [panic |-> FALSE, entries |-> entries]
        ELSE LET c == CHOOSE x \in unbalanced_sums : TRUE
                 sum == s.currency_sums[c]
             IN  IF checks /\ NegOverflows(sum)
                 THEN [panic |-> TRUE, entries |-> entries]
                 ELSE [panic |-> FALSE,
                       entries |-> [entries EXCEPT ![s.balancing_entry].amount =
                                        Some(c, WrappingNeg(sum))]]

(***************************************************************************)
(* validate_entries_balanced (new_transaction_data.rs): sums every entry   *)
(* that has an amount; the error's params are the non-zero sums.           *)
(***************************************************************************)
RECURSIVE validate_sum_loop(_, _, _, _)
validate_sum_loop(entries, i, currency_sums, checks) ==
    IF i > Len(entries) THEN [panic |-> FALSE, currency_sums |-> currency_sums]
    ELSE IF entries[i].amount.some
    THEN LET c == entries[i].amount.currency
             current_value == GetOrZero(currency_sums, c)
             v == entries[i].amount.value
         IN  IF checks /\ AddOverflows(current_value, v)
             THEN [panic |-> TRUE, currency_sums |-> currency_sums]
             ELSE validate_sum_loop(entries, i + 1,
                                    Insert(currency_sums, c, WrappingAdd(current_value, v)),
                                    checks)
    ELSE validate_sum_loop(entries, i + 1, currency_sums, checks)

\* [panic, ok, params]: params maps each unbalanced currency to its sum
validate_entries_balanced(entries, checks) ==
    LET s == validate_sum_loop(entries, 1, EmptyMap, checks)
        unbalanced_currencies == [c \in NonZero(s.currency_sums) |-> s.currency_sums[c]]
    IN  [panic |-> s.panic,
         ok |-> ~s.panic /\ DOMAIN unbalanced_currencies = {},
         params |-> IF s.panic THEN EmptyMap ELSE unbalanced_currencies]

(***************************************************************************)
(* ValidationErrors, as the validator crate builds them for the derives    *)
(* of NewTransactionData and NewTransactionEntryData.                      *)
(*   payee        : the field errors under "payee"                         *)
(*   entries      : the field errors under "entries" (Field kind)          *)
(*   entries_list : the per-index entry errors under "entries" (List       *)
(*                  kind), keyed by the 0-based index of the entry         *)
(* The derive runs a list's nested validation only when the list's key     *)
(* has no field error yet, so "entries" is of one kind or the other.       *)
(***************************************************************************)
FieldError(code, params) == [code |-> code, params |-> params]

NoEntryErrors == [account |-> << >>, amount |-> << >>, currency |-> << >>]

NoErrors == [payee |-> << >>, entries |-> << >>, entries_list |-> EmptyMap]

EntryHasErrors(ee) == ee.account # << >> \/ ee.amount # << >> \/ ee.currency # << >>

HasErrors(errors) ==
    \/ errors.payee # << >>
    \/ errors.entries # << >>
    \/ DOMAIN errors.entries_list # {}

\* the keys of the ValidationErrors map
ErrorKeys(errors) ==
    {k \in {"payee"} : errors.payee # << >>}
    \cup {k \in {"entries"} : errors.entries # << >> \/ DOMAIN errors.entries_list # {}}

\* #[derive(Validate)] of NewTransactionEntryData and NewTransactionEntryAmountData
validate_entry(e) ==
    [account |-> IF StrLen(e.account) < 1 THEN <<"length">> ELSE << >>,
     amount |-> << >>,
     currency |-> IF e.amount.some /\ StrLen(e.amount.currency) # 3
                  THEN <<"length">> ELSE << >>]

\* #[derive(Validate)] of NewTransactionData: [panic, errors]
validate(d, checks) ==
    LET balanced == validate_entries_balanced(d.entries, checks)
        payee_errors == IF StrLen(d.payee) < 1 THEN <<"length">> ELSE << >>
        entries_errors ==
            (IF Len(d.entries) < 2 THEN <<FieldError("length", EmptyMap)>> ELSE << >>)
            \o (IF balanced.ok THEN << >>
                ELSE <<FieldError("unbalanced", balanced.params)>>)
        failing == {i \in 0..(Len(d.entries) - 1) :
                       EntryHasErrors(validate_entry(d.entries[i + 1]))}
        entries_list ==
            IF entries_errors = << >>
            THEN [i \in failing |-> validate_entry(d.entries[i + 1])]
            ELSE EmptyMap
    IN  IF balanced.panic THEN [panic |-> TRUE, errors |-> NoErrors]
        ELSE [panic |-> FALSE,
              errors |-> [payee |-> payee_errors, entries |-> entries_errors,
                          entries_list |-> entries_list]]

(***************************************************************************)
(* What a constructor returns.  kind is "Ok", "Err" or "panic"; entries    *)
(* are the built entries of an Ok; errors the ValidationErrors of          *)
(* from_data; unbalanced the map of NewTransactionError::Unbalanced.       *)
(***************************************************************************)
Panic == [kind |-> "panic", entries |-> << >>, errors |-> NoErrors,
          unbalanced |-> EmptyMap]

Ok(entries) == [kind |-> "Ok", entries |-> entries, errors |-> NoErrors,
                unbalanced |-> EmptyMap]

ErrValidation(errors) == [kind |-> "Err", entries |-> << >>, errors |-> errors,
                          unbalanced |-> EmptyMap]

ErrUnbalanced(sums) == [kind |-> "Err", entries |-> << >>, errors |-> NoErrors,
                        unbalanced |-> sums]

\* the validated entries: every entry has an amount
Built(entries) ==
    [i \in 1..Len(entries) |->
        [account |-> entries[i].account,
         currency |-> entries[i].amount.currency,
         value |-> entries[i].amount.value]]

Missing(entries) == {i \in 1..Len(entries) : ~entries[i].amount.some}

SetMin(S) == CHOOSE x \in S : \A y \in S : x <= y

\* the error from_data builds for the first entry left without an amount
RequiredAmount(index) ==
    [payee |-> << >>, entries |-> << >>,
     entries_list |-> [i \in {index} |->
                          [account |-> << >>, amount |-> <<"required">>,
                           currency |-> << >>]]]

(***************************************************************************)
(* NewTransaction::from_data (new_transaction.rs)                          *)
(***************************************************************************)
from_data(d, checks) ==
    LET b == try_balance(d.entries, checks)
        v == validate([d EXCEPT !.entries = b.entries], checks)
    IN  IF b.panic THEN Panic
        ELSE IF v.panic THEN Panic
        ELSE IF HasErrors(v.errors) THEN ErrValidation(v.errors)
        ELSE IF Missing(b.entries) # {}
        THEN ErrValidation(RequiredAmount(SetMin(Missing(b.entries)) - 1))
        ELSE Ok(Built(b.entries))

(***************************************************************************)
(* NewTransaction::new (transactions.rs).  The loop goes on after a second *)
(* entry without an amount; the Unbalanced error carries the whole map of  *)
(* sums; the validated entries unwrap every amount.                        *)
(***************************************************************************)
RECURSIVE new_loop(_, _, _, _, _, _)
new_loop(entries, i, sums, balancing_entry, cannot_be_balanced, checks) ==
    IF i > Len(entries)
    THEN [panic |-> FALSE, sums |-> sums, balancing_entry |-> balancing_entry,
          cannot_be_balanced |-> cannot_be_balanced]
    ELSE IF entries[i].amount.some
    THEN LET c == entries[i].amount.currency
             previous_sum == GetOrZero(sums, c)
             v == entries[i].amount.value
         IN  IF checks /\ AddOverflows(previous_sum, v)
             THEN [panic |-> TRUE, sums |-> sums, balancing_entry |-> balancing_entry,
                   cannot_be_balanced |-> cannot_be_balanced]
             ELSE new_loop(entries, i + 1, Insert(sums, c, WrappingAdd(previous_sum, v)),
                           balancing_entry, cannot_be_balanced, checks)
    ELSE IF balancing_entry = 0
    THEN new_loop(entries, i + 1, sums, i, cannot_be_balanced, checks)
    ELSE new_loop(entries, i + 1, sums, balancing_entry, TRUE, checks)

\* the unwrap of every amount: a panic when an entry has none
validated_entries(entries) ==
    IF Missing(entries) # {} THEN Panic ELSE Ok(Built(entries))

new(entries, checks) ==
    LET s == new_loop(entries, 1, EmptyMap, 0, FALSE, checks)
        unbalanced_currencies == NonZero(s.sums)
    IN  IF s.panic THEN Panic
        ELSE IF s.cannot_be_balanced THEN ErrUnbalanced(s.sums)
        ELSE IF Cardinality(unbalanced_currencies) = 0 THEN validated_entries(entries)
        ELSE IF Cardinality(unbalanced_currencies) = 1 /\ s.balancing_entry # 0
        THEN LET c == CHOOSE x \in unbalanced_currencies : TRUE
             IN  IF checks /\ NegOverflows(s.sums[c]) THEN Panic
                 ELSE validated_entries(
                          [entries EXCEPT ![s.balancing_entry].amount =
                              Some(c, WrappingNeg(s.sums[c]))])
        ELSE ErrUnbalanced(s.sums)

(***************************************************************************)
(* The inputs of the constructors                                          *)
(***************************************************************************)
MaxEntries == 4

Payees == {"", "P"}

Accounts == {"", "A"}

AmountInputs ==
    {None}
    \cup {Some("USD", v) : v \in {MinI32, -1, 0, 1, MaxI32}}
    \cup {Some("EUR", v) : v \in {0, 1}}
    \cup {Some("US", 0)}

EntryInputs == [account : Accounts, amount : AmountInputs]

EntryLists == UNION {[1..n -> EntryInputs] : n \in 0..MaxEntries}

DataInputs == [payee : Payees, entries : EntryLists]

NoValue == "none"

\* no rate limiter: the state of its variables while other parts run
NoRate ==
    /\ cache = NoValue /\ clock = NoValue /\ max_req_per_min = NoValue
    /\ caller = NoValue /\ allowed = NoValue

\* no store: the state of the store variables while the pure functions run
NoStore ==
    /\ transaction = NoValue /\ transaction_entry = NoValue /\ account = NoValue
    /\ now = NoValue /\ next_id = NoValue /\ writer = NoValue
    /\ reader = NoValue /\ inputs = NoValue /\ committed = NoValue

(***************************************************************************)
(* The constructors as a state machine: the build is chosen at the start,  *)
(* then one constructor runs on one input.                                 *)
(***************************************************************************)
InitTx ==
    /\ NoStore
    /\ NoRate
    /\ pc = "start"
    /\ overflow_checks \in BOOLEAN
    /\ data = NoValue /\ result = NoValue
    /\ rep = NoValue /\ response = NoValue
    /\ currency = NoValue /\ raw_amount = NoValue /\ parsed = NoValue
    /\ value = NoValue /\ formatted = NoValue

FromData ==
    /\ pc = "start"
    /\ \E d \in DataInputs :
        /\ data' = d
        /\ result' = from_data(d, overflow_checks)
    /\ pc' = "from_data"
    /\ UNCHANGED <<overflow_checks, rep, response, currency, raw_amount, parsed,
                   value, formatted>>
    /\ UNCHANGED <<storeVars, rateVars>>

New ==
    /\ pc = "start"
    /\ \E d \in DataInputs :
        /\ data' = d
        /\ result' = new(d.entries, overflow_checks)
    /\ pc' = "new"
    /\ UNCHANGED <<overflow_checks, rep, response, currency, raw_amount, parsed,
                   value, formatted>>
    /\ UNCHANGED <<storeVars, rateVars>>

NextTx == FromData \/ New

SpecTx == InitTx /\ [][NextTx]_vars

(***************************************************************************)
(* Exact sums.  The sum of a few i32 values can leave the range of the     *)
(* checker's integers, so an exact sum is kept as <<high, low>> with       *)
(* sum = high * 65536 + low and low in 0..65535.                           *)
(***************************************************************************)
Split(v) == <<v \div 65536, v % 65536>>

Carry(p) == <<p[1] + (p[2] \div 65536), p[2] % 65536>>

RECURSIVE ExactSumFrom(_, _, _)
ExactSumFrom(amounts, i, acc) ==
    IF i > Len(amounts) THEN acc
    ELSE ExactSumFrom(amounts, i + 1,
                      Carry(<<acc[1] + Split(amounts[i])[1],
                              acc[2] + Split(amounts[i])[2]>>))

\* the exact sum of a sequence of i32 values, as <<high, low>>
ExactSum(amounts) == ExactSumFrom(amounts, 1, <<0, 0>>)

RECURSIVE SelectValues(_, _, _)
SelectValues(entries, c, i) ==
    IF i > Len(entries) THEN << >>
    ELSE IF entries[i].amount.some /\ entries[i].amount.currency = c
    THEN <<entries[i].amount.value>> \o SelectValues(entries, c, i + 1)
    ELSE SelectValues(entries, c, i + 1)

\* the exact sum, in currency c, of the input entries that have an amount
InputSum(entries, c) == ExactSum(SelectValues(entries, c, 1))

InputCurrencies(entries) ==
    {entries[i].amount.currency : i \in {j \in 1..Len(entries) : entries[j].amount.some}}

\* the currencies whose exact sum over the input entries is not zero
UnbalancedInput(entries) ==
    {c \in InputCurrencies(entries) : InputSum(entries, c) # <<0, 0>>}

\* the exact sum, in currency c, of the entries of a built transaction
BuiltSum(built, c) ==
    ExactSum([i \in 1..Len(built) |-> IF built[i].currency = c THEN built[i].value ELSE 0])

BuiltCurrencies(built) == {built[i].currency : i \in 1..Len(built)}

\* payee, entry count, account names and currency codes pass the length rules
StructurallyValid(d) ==
    /\ StrLen(d.payee) >= 1
    /\ Len(d.entries) >= 2
    /\ \A i \in 1..Len(d.entries) :
        /\ StrLen(d.entries[i].account) >= 1
        /\ d.entries[i].amount.some => StrLen(d.entries[i].amount.currency) = 3

\* C1 (as claimed): whenever NewTransaction::new or NewTransaction::from_data
\* returns success, the entry values of every currency among the resulting
\* entries sum to exactly 0.
C1_BalanceInvariant ==
    (pc \in {"from_data", "new"} /\ result.kind = "Ok")
        => \A c \in BuiltCurrencies(result.entries) :
              BuiltSum(result.entries, c) = <<0, 0>>

\* The balance invariant of a build with overflow checks: there no sum wraps.
BalanceInvariantChecked == overflow_checks => C1_BalanceInvariant

\* the one element of a one-element set
TheOne(S) == CHOOSE x \in S : TRUE

\* C2 (as claimed): when exactly one entry omits its amount and exactly one
\* currency has a non-zero sum s over the other entries, the transaction is
\* built, the omitted entry keeps its position and account and gets the amount
\* -s in that currency, and the other entries are taken as given (for
\* from_data: on input that passes the length rules).
C2_AutoBalance ==
    (/\ pc \in {"from_data", "new"}
     /\ pc = "from_data" => StructurallyValid(data)
     /\ Cardinality(Missing(data.entries)) = 1
     /\ Cardinality(UnbalancedInput(data.entries)) = 1)
    => LET i == TheOne(Missing(data.entries))
           c == TheOne(UnbalancedInput(data.entries))
       IN  /\ result.kind = "Ok"
           /\ Len(result.entries) = Len(data.entries)
           /\ result.entries[i].account = data.entries[i].account
           /\ result.entries[i].currency = c
           /\ ExactSum(<<result.entries[i].value>> \o SelectValues(data.entries, c, 1))
                  = <<0, 0>>
           /\ \A j \in (1..Len(data.entries)) \ {i} :
                  result.entries[j] = Built(data.entries)[j]

\* The auto-balance of C2 whenever no sum and no negation leaves the i32 range:
\* every value of the input is -1, 0 or 1.
SmallValues(entries) ==
    \A i \in 1..Len(entries) : entries[i].amount.value \in {-1, 0, 1}

AutoBalanceSmall ==
    (pc \in {"from_data", "new"} /\ SmallValues(data.entries)) => C2_AutoBalance

Codes(field_errors) == {field_errors[k].code : k \in 1..Len(field_errors)}

\* C3 (as claimed): from_data rejects every input with fewer than 2 entries, an
\* empty payee or an entry with an empty account name, and the error names
\* each offending field with code 'length': payee, entries, and
\* entries[i].account at the index i of the offending entry.
C3_StructuralErrors ==
    (/\ pc = "from_data"
     /\ \/ StrLen(data.payee) = 0
        \/ Len(data.entries) < 2
        \/ \E i \in 1..Len(data.entries) : StrLen(data.entries[i].account) = 0)
    => /\ result.kind = "Err"
       /\ StrLen(data.payee) = 0 => "length" \in {result.errors.payee[k] :
                                        k \in 1..Len(result.errors.payee)}
       /\ Len(data.entries) < 2 => "length" \in Codes(result.errors.entries)
       /\ \A i \in 1..Len(data.entries) :
            StrLen(data.entries[i].account) = 0
                => /\ (i - 1) \in DOMAIN result.errors.entries_list
                   /\ result.errors.entries_list[i - 1].account = <<"length">>

\* The part of C3 the code does provide: such an input never builds a transaction.
StructuralNeverBuilt ==
    (/\ pc = "from_data"
     /\ \/ StrLen(data.payee) = 0
        \/ Len(data.entries) < 2
        \/ \E i \in 1..Len(data.entries) : StrLen(data.entries[i].account) = 0)
    => result.kind # "Ok"

\* C5 (as claimed): from_data on input that passes the length rules, has exactly
\* one entry (index i) without an amount and whose other entries sum to zero in
\* every currency returns an error whose only key is 'entries', a per-index
\* list with the single error 'required' on 'amount' at index i.
C5_UnusedBalancingEntry ==
    (/\ pc = "from_data"
     /\ StructurallyValid(data)
     /\ Cardinality(Missing(data.entries)) = 1
     /\ UnbalancedInput(data.entries) = {})
    => LET i == TheOne(Missing(data.entries))
       IN  /\ result.kind = "Err"
           /\ ErrorKeys(result.errors) = {"entries"}
           /\ result.errors.entries = << >>
           /\ DOMAIN result.errors.entries_list = {i - 1}
           /\ result.errors.entries_list[i - 1]
                  = [account |-> << >>, amount |-> <<"required">>, currency |-> << >>]

\* C5 in a build without overflow checks, where no running sum panics
UnusedBalancingEntryWrapping == ~overflow_checks => C5_UnusedBalancingEntry

\* building is refused for imbalance: more than one currency with a non-zero
\* sum, or a non-zero sum and no entry without an amount
Imbalanced(entries) ==
    \/ Cardinality(UnbalancedInput(entries)) > 1
    \/ UnbalancedInput(entries) # {} /\ Missing(entries) = {}

\* map is exactly the non-zero exact sums of the input entries
ExactNonZeroSums(map, entries) ==
    /\ DOMAIN map = UnbalancedInput(entries)
    /\ \A c \in DOMAIN map : Split(map[c]) = InputSum(entries, c)

\* C6 (as claimed): when building is refused for imbalance, the error carries
\* exactly the currencies whose sum over the entries with an amount is not
\* zero, each with its exact sum, and no currency whose sum is zero: both the
\* Unbalanced map of NewTransaction::new and the params of the 'unbalanced'
\* validation error of validate_entries_balanced.
C6_UnbalancedReport ==
    /\ (pc = "new" /\ Imbalanced(data.entries) /\ result.kind = "Err")
        => ExactNonZeroSums(result.unbalanced, data.entries)
    /\ (pc = "from_data" /\ result.kind = "Err")
        => \A k \in 1..Len(result.errors.entries) :
              result.errors.entries[k].code = "unbalanced"
                  => ExactNonZeroSums(result.errors.entries[k].params, data.entries)

\* C6 for validate_entries_balanced alone in a build with overflow checks,
\* where no sum wraps: the params of 'unbalanced' are the exact non-zero sums.
UnbalancedParamsChecked ==
    (overflow_checks /\ pc = "from_data" /\ result.kind = "Err")
        => \A k \in 1..Len(result.errors.entries) :
              result.errors.entries[k].code = "unbalanced"
                  => ExactNonZeroSums(result.errors.entries[k].params, data.entries)

\* C7 (as claimed): try_balance never changes the number or order of the
\* entries, an account name, or an amount that is present; it changes an entry
\* only when exactly one entry lacks an amount and exactly one currency has a
\* non-zero sum; with two or more entries lacking an amount all of them still
\* lack it afterwards and from_data rejects the input.
C7_TryBalanceFrame ==
    pc = "from_data" =>
        LET b == try_balance(data.entries, overflow_checks)
        IN  /\ ~b.panic =>
                /\ Len(b.entries) = Len(data.entries)
                /\ \A i \in 1..Len(data.entries) :
                    /\ b.entries[i].account = data.entries[i].account
                    /\ data.entries[i].amount.some => b.entries[i] = data.entries[i]
                /\ b.entries # data.entries =>
                    /\ Cardinality(Missing(data.entries)) = 1
                    /\ Cardinality(UnbalancedInput(data.entries)) = 1
            /\ Cardinality(Missing(data.entries)) >= 2 =>
                /\ ~b.panic => Missing(b.entries) = Missing(data.entries)
                /\ result.kind = "Err"

\* C7 whenever no sum leaves the i32 range (every value is -1, 0 or 1)
TryBalanceFrameSmall ==
    (pc = "from_data" /\ SmallValues(data.entries)) => C7_TryBalanceFrame

(***************************************************************************)
(* Currency (currency.rs).  A text is a sequence of one-character strings. *)
(* A Currency is [code, minor_units].                                      *)
(***************************************************************************)
Digits == <<"0", "1", "2", "3", "4", "5", "6", "7", "8", "9">>

IsDigit(ch) == \E d \in 1..10 : Digits[d] = ch

DigitValue(ch) == (CHOOSE d \in 1..10 : Digits[d] = ch) - 1

\* "0".repeat(n)
Zeros(n) == [i \in 1..n |-> "0"]

\* str::replace(ch, "")
RECURSIVE Remove(_, _)
Remove(text, ch) ==
    IF text = << >> THEN << >>
    ELSE IF Head(text) = ch THEN Remove(Tail(text), ch)
    ELSE <<Head(text)>> \o Remove(Tail(text), ch)

\* str::rsplit_once("."): 0 when there is no '.', else the index of the last one
RECURSIVE LastDotUpTo(_, _)
LastDotUpTo(text, i) ==
    IF i = 0 THEN 0
    ELSE IF text[i] = "." THEN i
    ELSE LastDotUpTo(text, i - 1)

rsplit_once(text) ==
    LET at == LastDotUpTo(text, Len(text))
    IN  [found |-> at # 0,
         whole_part |-> IF at = 0 THEN << >> ELSE SubSeq(text, 1, at - 1),
         decimal_part |-> IF at = 0 THEN << >> ELSE SubSeq(text, at + 1, Len(text))]

\* <i32 as FromStr>::from_str on the digits after the sign: the value is
\* accumulated digit by digit (downwards for a negative number) and any
\* step that leaves the i32 range is an error.  [ok, value]
RECURSIVE from_str_digits(_, _, _, _)
from_str_digits(text, i, acc, negative) ==
    IF i > Len(text) THEN [ok |-> TRUE, value |-> acc]
    ELSE IF ~IsDigit(text[i]) THEN [ok |-> FALSE, value |-> 0]
    ELSE LET d == DigitValue(text[i])
         IN  IF negative
             THEN IF acc < (MinI32 + d + 9) \div 10 THEN [ok |-> FALSE, value |-> 0]
                  ELSE from_str_digits(text, i + 1, acc * 10 - d, negative)
             ELSE IF acc > (MaxI32 - d) \div 10 THEN [ok |-> FALSE, value |-> 0]
                  ELSE from_str_digits(text, i + 1, acc * 10 + d, negative)

\* str::parse::<i32>(): an optional sign, then at least one digit
parse_i32(text) ==
    IF text = << >> THEN [ok |-> FALSE, value |-> 0]
    ELSE IF Head(text) \in {"-", "+"}
    THEN IF Len(text) = 1 THEN [ok |-> FALSE, value |-> 0]
         ELSE from_str_digits(Tail(text), 1, 0, Head(text) = "-")
    ELSE from_str_digits(text, 1, 0, FALSE)

\* Result<i32, CurrencyParseError>: Ok(value), InvalidNumber(raw) or
\* TooManyDecimals(currency, decimals)
ParsedOk(v) ==
    [kind |-> "Ok", value |-> v, raw |-> << >>, currency |-> "none", decimals |-> 0]

InvalidNumber(raw) ==
    [kind |-> "InvalidNumber", value |-> 0, raw |-> raw, currency |-> "none",
     decimals |-> 0]

TooManyDecimals(cur, n) ==
    [kind |-> "TooManyDecimals", value |-> 0, raw |-> << >>, currency |-> cur,
     decimals |-> n]

\* a strict comparison in place of <=
decimal_fits_strict(decimal_part, minor_units) == Len(decimal_part) < minor_units

\* decimal_part.len() <= self.minor_units
decimal_fits(decimal_part, minor_units) == Len(decimal_part) <= minor_units

\* the decimal part left unpadded
pad_decimal_none(decimal_part, minor_units) == decimal_part

\* format!("{:0<width$}", decimal_part, width = minor_units)
pad_decimal(decimal_part, minor_units) ==
    IF Len(decimal_part) >= minor_units THEN decimal_part
    ELSE decimal_part \o Zeros(minor_units - Len(decimal_part))

\* Currency::parse_amount; a TooManyDecimals carries the currency parsed with
parse_amount(cur, raw) ==
    LET cleaned_amount == Remove(Remove(raw, ","), " ")
        split == rsplit_once(cleaned_amount)
        number_to_parse ==
            IF ~split.found THEN cleaned_amount \o Zeros(cur.minor_units)
            ELSE split.whole_part \o pad_decimal(split.decimal_part, cur.minor_units)
        number == parse_i32(number_to_parse)
    IN  IF split.found /\ ~decimal_fits(split.decimal_part, cur.minor_units)
        THEN TooManyDecimals(cur, Len(split.decimal_part))
        ELSE IF number.ok THEN ParsedOk(number.value)
        ELSE InvalidNumber(raw)

\* i32::to_string
RECURSIVE digits_of_negative(_)
digits_of_negative(v) ==
    IF v = 0 THEN << >>
    ELSE LET d == (10 - (v % 10)) % 10
         IN  digits_of_negative((v + d) \div 10) \o <<Digits[d + 1]>>

to_string(v) ==
    IF v = 0 THEN <<"0">>
    ELSE IF v < 0 THEN <<"-">> \o digits_of_negative(v)
    ELSE digits_of_negative(-v)

\* format!("{:0>width$}", amount_str, width = minor_units + 1)
pad_amount(amount_str, width) ==
    IF Len(amount_str) >= width THEN amount_str
    ELSE Zeros(width - Len(amount_str)) \o amount_str

\* Currency::format_value: [panic, text].  i32::abs of i32::MIN panics under
\* overflow checks and is i32::MIN otherwise.
format_value(cur, v, checks) ==
    LET sign == IF v < 0 THEN <<"-">> ELSE << >>
        abs == IF v < 0 THEN WrappingNeg(v) ELSE v
        padded == pad_amount(to_string(abs), cur.minor_units + 1)
        decimal_location == Len(padded) - cur.minor_units
        whole_part == SubSeq(padded, 1, decimal_location)
        decimal_part == SubSeq(padded, decimal_location + 1, Len(padded))
    IN  IF checks /\ v < 0 /\ NegOverflows(v) THEN [panic |-> TRUE, text |-> << >>]
        ELSE [panic |-> FALSE, text |-> sign \o whole_part \o <<".">> \o decimal_part]

(***************************************************************************)
(* The inputs of parse_amount and format_value                             *)
(***************************************************************************)
MaxTextLen == 4

MaxMinorUnits == 8

Chars == {"0", "1", "9", ".", ",", " ", "-", "x"}

RawTexts == UNION {[1..n -> Chars] : n \in 0..MaxTextLen}

FormatValues == {MinI32, MinI32 + 1, -12345, -70, -7, -1, 0, 1, 7, 70, 12345, MaxI32}

InitCurrency ==
    /\ NoStore
    /\ NoRate
    /\ pc = "start"
    /\ overflow_checks \in BOOLEAN
    /\ currency \in [code : {"CUR"}, minor_units : 0..MaxMinorUnits]
    /\ data = NoValue /\ result = NoValue
    /\ rep = NoValue /\ response = NoValue
    /\ raw_amount = NoValue /\ parsed = NoValue
    /\ value = NoValue /\ formatted = NoValue

ParseAmount ==
    /\ pc = "start"
    /\ \E raw \in RawTexts :
        /\ raw_amount' = raw
        /\ parsed' = parse_amount(currency, raw)
    /\ pc' = "parse_amount"
    /\ UNCHANGED <<overflow_checks, data, result, rep, response, currency, value,
                   formatted>>
    /\ UNCHANGED <<storeVars, rateVars>>

FormatValue ==
    /\ pc = "start"
    /\ \E v \in FormatValues :
        /\ value' = v
        /\ formatted' = format_value(currency, v, overflow_checks)
    /\ pc' = "format_value"
    /\ UNCHANGED <<overflow_checks, data, result, rep, response, currency, raw_amount,
                   parsed>>
    /\ UNCHANGED <<storeVars, rateVars>>

\* the caller parses back what format_value returned
ParseFormatted ==
    /\ pc = "format_value"
    /\ ~formatted.panic
    /\ raw_amount' = formatted.text
    /\ parsed' = parse_amount(currency, formatted.text)
    /\ pc' = "round_trip"
    /\ UNCHANGED <<overflow_checks, data, result, rep, response, currency, value,
                   formatted>>
    /\ UNCHANGED <<storeVars, rateVars>>

NextCurrency == ParseAmount \/ FormatValue \/ ParseFormatted

SpecCurrency == InitCurrency /\ [][NextCurrency]_vars

\* C8 (as claimed): for every currency with minor_units in 0..8 and every i32
\* value v, format_value(v) returns a text and parse_amount of it returns Ok(v).
C8_RoundTrip ==
    /\ pc = "format_value" => ~formatted.panic
    /\ pc = "round_trip" => parsed = ParsedOk(value)

\* The round trip for every i32 value but i32::MIN
RoundTripButMin ==
    /\ (pc = "format_value" /\ value # MinI32) => ~formatted.panic
    /\ (pc = "round_trip" /\ value # MinI32) => parsed = ParsedOk(value)

(***************************************************************************)
(* What the claims about parse_amount say, stated on the text itself       *)
(***************************************************************************)
\* the raw text once ',' and space characters are removed
Cleaned(raw) == SelectSeq(raw, LAMBDA ch : ch \notin {",", " "})

\* the text after an optional leading '-'
Unsigned(text) == IF text # << >> /\ Head(text) = "-" THEN Tail(text) ELSE text

IsNegative(text) == text # << >> /\ Head(text) = "-"

DotsOf(text) == {i \in 1..Len(text) : text[i] = "."}

SetMax(S) == CHOOSE x \in S : \A y \in S : x >= y

\* [-]W, [-]W.D or [-].D: digits around at most one '.', at least one digit
IsDecimalText(text) ==
    LET body == Unsigned(text)
    IN  /\ \A i \in 1..Len(body) : IsDigit(body[i]) \/ body[i] = "."
        /\ Cardinality(DotsOf(body)) <= 1
        /\ \E i \in 1..Len(body) : IsDigit(body[i])

\* W and D of a decimal text
WholeDigits(text) ==
    LET body == Unsigned(text)
    IN  IF DotsOf(body) = {} THEN body ELSE SubSeq(body, 1, SetMax(DotsOf(body)) - 1)

DecimalDigits(text) ==
    LET body == Unsigned(text)
    IN  IF DotsOf(body) = {} THEN << >>
        ELSE SubSeq(body, SetMax(DotsOf(body)) + 1, Len(body))

RECURSIVE Pow10(_)
Pow10(k) == IF k = 0 THEN 1 ELSE 10 * Pow10(k - 1)

\* the number a string of digits denotes, an empty string counting as 0
RECURSIVE NatOf(_)
NatOf(digits) ==
    IF digits = << >> THEN 0
    ELSE 10 * NatOf(SubSeq(digits, 1, Len(digits) - 1)) + DigitValue(digits[Len(digits)])

\* D * 10^(m - length(D))
ScaledDecimal(text, m) ==
    NatOf(DecimalDigits(text)) * Pow10(m - Len(DecimalDigits(text)))

\* sign * (W * 10^m + D * 10^(m - length(D))) lies in the i32 range
ScaledFits(text, m) ==
    IF IsNegative(text)
    THEN -NatOf(WholeDigits(text))
            >= (MinI32 + ScaledDecimal(text, m) + Pow10(m) - 1) \div Pow10(m)
    ELSE NatOf(WholeDigits(text)) <= (MaxI32 - ScaledDecimal(text, m)) \div Pow10(m)

\* sign * (W * 10^m + D * 10^(m - length(D))), when it fits
Scaled(text, m) ==
    IF IsNegative(text)
    THEN (-NatOf(WholeDigits(text))) * Pow10(m) - ScaledDecimal(text, m)
    ELSE NatOf(WholeDigits(text)) * Pow10(m) + ScaledDecimal(text, m)

\* the case of C9: a decimal text with at most minor_units decimals was parsed
ScalingCase ==
    /\ pc = "parse_amount"
    /\ IsDecimalText(Cleaned(raw_amount))
    /\ Len(DecimalDigits(Cleaned(raw_amount))) <= currency.minor_units

\* C9 (as claimed): for every raw text that, once ',' and spaces are removed,
\* has the form [-]W, [-]W.D or [-].D with length(D) <= minor_units,
\* parse_amount returns Ok(sign * (W * 10^m + D * 10^(m - length(D)))).
C9_ParseScaling ==
    ScalingCase =>
        /\ ScaledFits(Cleaned(raw_amount), currency.minor_units)
        /\ parsed = ParsedOk(Scaled(Cleaned(raw_amount), currency.minor_units))

\* C9 (amended): for such a text parse_amount returns
\* Ok(sign * (W * 10^m + D * 10^(m - length(D)))) when that number lies in the
\* i32 range, and InvalidNumber(raw text) when it does not.
C9_ParseScalingInRange ==
    ScalingCase =>
        IF ScaledFits(Cleaned(raw_amount), currency.minor_units)
        THEN parsed = ParsedOk(Scaled(Cleaned(raw_amount), currency.minor_units))
        ELSE parsed = InvalidNumber(raw_amount)

\* C9 witness: a negative text with whole digits and fewer decimals than
\* minor_units was parsed to a non-zero value
C9_Witness ==
    /\ ScalingCase
    /\ IsNegative(Cleaned(raw_amount))
    /\ WholeDigits(Cleaned(raw_amount)) # << >>
    /\ Len(DecimalDigits(Cleaned(raw_amount))) >= 1
    /\ Len(DecimalDigits(Cleaned(raw_amount))) < currency.minor_units
    /\ parsed.kind = "Ok" /\ parsed.value < 0

\* the length of the part after the last '.', or -1 without a '.'
DecimalsGiven(text) ==
    IF DotsOf(text) = {} THEN -1 ELSE Len(text) - SetMax(DotsOf(text))

\* C10: parse_amount returns TooManyDecimals exactly when the cleaned text has
\* a '.' and the part after the last '.' is longer than minor_units; the error
\* carries the parsing currency and that length, and no value is returned.
C10_TooManyDecimals ==
    pc = "parse_amount" =>
        LET n == DecimalsGiven(Cleaned(raw_amount))
        IN  /\ parsed.kind = "TooManyDecimals" <=> n > currency.minor_units
            /\ parsed.kind = "TooManyDecimals"
                   => parsed = TooManyDecimals(currency, n)
            /\ n > currency.minor_units => parsed.kind # "Ok"

\* C10 witness: a text with digits on both sides of the '.' and one decimal
\* too many for a currency that has minor units was refused
C10_Witness ==
    /\ pc = "parse_amount"
    /\ currency.minor_units >= 1
    /\ IsDecimalText(Cleaned(raw_amount))
    /\ WholeDigits(Cleaned(raw_amount)) # << >>
    /\ DecimalsGiven(Cleaned(raw_amount)) = currency.minor_units + 1
    /\ parsed.kind = "TooManyDecimals"

(***************************************************************************)
(* reps::NewTransaction::try_into_domain (http/reps.rs): every amount text *)
(* is parsed with the currency found for its code, the first failure is    *)
(* returned, and the parsed entries go to NewTransaction::new.             *)
(*   response: [kind, message, entries], kind "Ok", "Err" or "panic"       *)
(***************************************************************************)
\* the currencies the handler found for the codes the request uses
CurrencyTable ==
    [code \in {"USD", "JPY"} |->
        [code |-> code, minor_units |-> IF code = "USD" THEN 2 ELSE 0]]

NoneRep == [some |-> FALSE, currency |-> "", value |-> << >>]

SomeRep(c, text) == [some |-> TRUE, currency |-> c, value |-> text]

\* impl From<CurrencyParseError> for TransactionValidationError
message_of_parse_error(error) ==
    IF error.kind = "InvalidNumber" THEN "not a valid number"
    ELSE "too many decimal places"

\* the loop over self.entries: [failed, message, parsed_entries]
RECURSIVE parse_entries(_, _, _, _)
parse_entries(entries, currencies, i, parsed_entries) ==
    IF i > Len(entries)
    THEN [failed |-> FALSE, message |-> "", parsed_entries |-> parsed_entries]
    ELSE IF ~entries[i].amount.some
    THEN parse_entries(entries, currencies, i + 1,
                       Append(parsed_entries,
                              [account |-> entries[i].account, amount |-> None]))
    ELSE IF entries[i].amount.currency \notin DOMAIN currencies
    THEN [failed |-> TRUE, message |-> "currency code is unrecognized",
          parsed_entries |-> parsed_entries]
    ELSE LET cur == currencies[entries[i].amount.currency]
             amount == parse_amount(cur, entries[i].amount.value)
         IN  IF amount.kind # "Ok"
             THEN [failed |-> TRUE, message |-> message_of_parse_error(amount),
                   parsed_entries |-> parsed_entries]
             ELSE parse_entries(entries, currencies, i + 1,
                                Append(parsed_entries,
                                       [account |-> entries[i].account,
                                        amount |-> Some(cur.code, amount.value)]))

try_into_domain(r, currencies, checks) ==
    LET p == parse_entries(r.entries, currencies, 1, << >>)
        built == new(p.parsed_entries, checks)
    IN  IF p.failed THEN [kind |-> "Err", message |-> p.message, entries |-> << >>]
        ELSE IF built.kind = "panic"
        THEN [kind |-> "panic", message |-> "", entries |-> << >>]
        ELSE IF built.kind = "Err"
        THEN [kind |-> "Err", message |-> "entries are unbalanced", entries |-> << >>]
        ELSE [kind |-> "Ok", message |-> "", entries |-> built.entries]

\* the amount texts of the requests: 1, -1, one decimal too many for USD, not a number
AmountTexts == {<<"1">>, <<"-", "1">>, <<"1", ".", "0", "0", "5">>, <<"x">>}

RepAmountInputs ==
    {NoneRep} \cup {SomeRep("USD", t) : t \in AmountTexts} \cup {SomeRep("XXX", <<"1">>)}

RepEntryInputs == [account : Accounts, amount : RepAmountInputs]

RepInputs ==
    [payee : Payees,
     entries : UNION {[1..n -> RepEntryInputs] : n \in 0..MaxEntries}]

InitHttp ==
    /\ NoStore
    /\ NoRate
    /\ pc = "start"
    /\ overflow_checks \in BOOLEAN
    /\ data = NoValue /\ result = NoValue
    /\ rep = NoValue /\ response = NoValue
    /\ currency = NoValue /\ raw_amount = NoValue /\ parsed = NoValue
    /\ value = NoValue /\ formatted = NoValue

TryIntoDomain ==
    /\ pc = "start"
    /\ \E r \in RepInputs :
        /\ rep' = r
        /\ response' = try_into_domain(r, CurrencyTable, overflow_checks)
    /\ pc' = "try_into_domain"
    /\ UNCHANGED <<overflow_checks, data, result, currency, raw_amount, parsed, value,
                   formatted>>
    /\ UNCHANGED <<storeVars, rateVars>>

NextHttp == TryIntoDomain

SpecHttp == InitHttp /\ [][NextHttp]_vars

\* C4 (as claimed): a request converted by try_into_domain and built by
\* NewTransaction::new returns no NewTransaction whenever it has fewer than 2
\* entries, an empty payee or an entry with an empty account name.
C4_HttpStructuralValidation ==
    (/\ pc = "try_into_domain"
     /\ \/ Len(rep.entries) < 2
        \/ StrLen(rep.payee) = 0
        \/ \E i \in 1..Len(rep.entries) : StrLen(rep.entries[i].account) = 0)
    => response.kind # "Ok"

(***************************************************************************)
(* The shape of what format_value returns                                  *)
(***************************************************************************)
\* text is [-]W.D with at least one digit in W and exactly m digits in D,
\* signed as v is, and W * 10^m + D is the magnitude of v
FormatShape(text, v, m) ==
    LET body == Unsigned(text)
        number == NatOf(WholeDigits(text)) * Pow10(m) + NatOf(DecimalDigits(text))
    IN  /\ IsNegative(text) <=> v < 0
        /\ \A i \in 1..Len(body) : IsDigit(body[i]) \/ body[i] = "."
        /\ Cardinality(DotsOf(body)) = 1
        /\ Len(WholeDigits(text)) >= 1
        /\ Len(DecimalDigits(text)) = m
        /\ v = (IF v < 0 THEN -number ELSE number)

\* C11 (as claimed): for every currency with minor_units m and every i32 value
\* v, format_value(v) returns a text that is '-' exactly when v < 0, then at
\* least one whole digit, a single '.', and exactly m fractional digits, and
\* the text denotes |v| / 10^m.
C11_FormatShape ==
    pc \in {"format_value", "round_trip"} =>
        /\ ~formatted.panic
        /\ FormatShape(formatted.text, value, currency.minor_units)

\* The shape for every i32 value but i32::MIN
FormatShapeButMin ==
    (pc \in {"format_value", "round_trip"} /\ value # MinI32) =>
        /\ ~formatted.panic
        /\ FormatShape(formatted.text, value, currency.minor_units)

(***************************************************************************)
(* The store.  Tables transaction, transaction_entry and account hold the  *)
(* committed rows.  A write call runs its statements inside one database   *)
(* transaction: the rows it writes are pending in its connection and reach *)
(* the tables at COMMIT, or are dropped when a statement fails and the     *)
(* `?` operator leaves the function, which rolls the transaction back.     *)
(* An UPDATE of a transaction row locks that row until the end of the      *)
(* database transaction, so a second UPDATE of the same row waits.         *)
(***************************************************************************)
\* The page size of the model.  The code's TRANSACTION_PAGE_SIZE is 50; pages
\* are scaled down so that a bounded store holds several of them, and every
\* formula about pages is stated in terms of this definition.
TRANSACTION_PAGE_SIZE == 2

\* at most this many transaction ids are generated while pages are listed
MaxTx == 5

Range(seq) == {seq[i] : i \in 1..Len(seq)}

NoPure ==
    /\ pc = NoValue /\ overflow_checks = NoValue
    /\ data = NoValue /\ result = NoValue
    /\ rep = NoValue /\ response = NoValue
    /\ currency = NoValue /\ raw_amount = NoValue /\ parsed = NoValue
    /\ value = NoValue /\ formatted = NoValue

pureVars == <<pc, overflow_checks, data, result, rep, response,
              currency, raw_amount, parsed, value, formatted>>

\* models::NewTransaction::from(&domain NewTransaction) and the row the
\* INSERT returns: the database generates id and created_at
InsertedTransaction(id, created_at, t) ==
    [id |-> id, user_id |-> t.user_id, date |-> t.date, payee |-> t.payee,
     notes |-> t.notes, created_at |-> created_at]

\* UPDATE transaction SET date, payee, notes: the other columns are kept
UpdatedTransaction(row, t) ==
    [row EXCEPT !.date = t.date, !.payee = t.payee, !.notes = t.notes]

\* NewTransactionEntry::from_domain_entries: order is the 0-based index
from_domain_entries(transaction_id, user_id, entries) ==
    [i \in 1..Len(entries) |->
        [transaction_id |-> transaction_id,
         order |-> i - 1,
         account |-> [user_id |-> user_id, name |-> entries[i].account],
         currency |-> entries[i].currency,
         amount |-> entries[i].amount]]

\* get_or_create_account(owner_id, account_name): one account per owner and
\* name, whose id stands for that pair
get_or_create_account(owner_id, account_name) ==
    [id |-> <<owner_id, account_name>>, user_id |-> owner_id, name |-> account_name]

\* INSERT INTO transaction_entry (transaction_id, "order", account_id,
\* currency, amount) VALUES ...: the entry rows and the accounts it creates
InsertedEntries(entry_models) ==
    {[transaction_id |-> m.transaction_id,
      order |-> m.order,
      account_id |-> get_or_create_account(m.account.user_id, m.account.name).id,
      currency |-> m.currency,
      amount |-> m.amount] : m \in Range(entry_models)}

CreatedAccounts(entry_models) ==
    {get_or_create_account(m.account.user_id, m.account.name) : m \in Range(entry_models)}

\* a connection with no call in progress; call and result are its last call
\* and what it returned
Idle(last_call, last_result) ==
    [pc |-> "idle", call |-> last_call, id |-> NoValue, update |-> NoValue,
     row |-> NoValue, deleted |-> {}, inserted |-> {}, accounts |-> {},
     result |-> last_result]

\* the row with this id, whoever owns it
TargetRowsOfAnyOwner(id, user_id) == {t \in transaction : t.id = id}

\* the row of table transaction with this id and owner, as a set
TargetRows(id, user_id) == {t \in transaction : t.id = id /\ t.user_id = user_id}

\* the row lock taken by UPDATE transaction ... WHERE id = $1
Locked(id) == \E w \in DOMAIN writer :
    writer[w].pc \in {"update_row", "update_deleted", "update_entries"} /\ writer[w].id = id

\* the NewTransaction values a call may carry
NewTransactions == inputs.new_transactions

tables == <<transaction, transaction_entry, account>>

(***************************************************************************)
(* The INSERT of the entries is built with sqlx's QueryBuilder.  Each      *)
(* entry gives one VALUES tuple, written through a Separated whose         *)
(* separator is ",": push and push_bind write the separator first unless   *)
(* nothing was pushed yet, push_unseparated and push_bind_unseparated      *)
(* never write it.  A tuple is the sequence of its tokens, "$" standing    *)
(* for a bind placeholder.                                                 *)
(***************************************************************************)
Separated == [text |-> << >>, push_separator |-> FALSE]

push(b, sql) ==
    [text |-> b.text \o (IF b.push_separator THEN <<",">> ELSE << >>) \o <<sql>>,
     push_separator |-> TRUE]

push_unseparated(b, sql) == [b EXCEPT !.text = b.text \o <<sql>>]

push_bind(b) ==
    [text |-> b.text \o (IF b.push_separator THEN <<",">> ELSE << >>) \o <<"$">>,
     push_separator |-> TRUE]

push_bind_unseparated(b) == [b EXCEPT !.text = b.text \o <<"$">>]

\* the closure persist_transaction gives push_values
persist_entry_values ==
    push_bind(push_bind(push_unseparated(push_bind(push_bind_unseparated(
        push(push_bind(push_bind(Separated)), "get_or_create_account("))),
        ")"))).text

\* the closure update_transaction gives push_values: the ")" is pushed with
\* push, not with push_unseparated
update_entry_values ==
    push_bind(push_bind(push(push_bind(push_bind_unseparated(
        push(push_bind(push_bind(Separated)), "get_or_create_account("))),
        ")"))).text

\* push_values: one tuple per entry model after the keyword VALUES
push_values(entry_models, entry_values) ==
    [i \in 1..Len(entry_models) |-> entry_values]

\* a tuple the database parses: an expression stands before and after every
\* comma
ParsesValues(entry_values) ==
    \A i \in 1..Len(entry_values) :
        entry_values[i] = "," =>
            /\ i > 1 /\ i < Len(entry_values)
            /\ entry_values[i - 1] \in {"$", ")"}
            /\ entry_values[i + 1] \in {"$", "get_or_create_account("}

\* a statement the database parses: VALUES is followed by at least one
\* tuple and every tuple parses
Parses(values) ==
    /\ values # << >>
    /\ \A i \in 1..Len(values) : ParsesValues(values[i])

(***************************************************************************)
(* persist_transaction, statement by statement                             *)
(***************************************************************************)
\* begin; INSERT INTO transaction ... RETURNING: the row is pending.  The
\* database generates the id and stamps created_at with its clock, which may
\* or may not have advanced since the previous insert.
InsertTransaction(w, t) ==
    /\ next_id <= inputs.max_tx
    /\ \E created_at \in {now + tick : tick \in inputs.ticks} :
        /\ writer' = [writer EXCEPT ![w] =
                [pc |-> "persist_row", call |-> "persist", id |-> next_id, update |-> t,
                 row |-> InsertedTransaction(next_id, created_at, t),
                 deleted |-> {}, inserted |-> {}, accounts |-> {},
                 result |-> NoValue]]
        /\ now' = created_at
    /\ next_id' = next_id + 1
    /\ UNCHANGED <<tables, reader, inputs, committed, rateVars>>

\* persist_transaction is called with one of the NewTransaction values
PersistInsertTransaction(w) ==
    /\ writer[w].pc = "idle"
    /\ \E t \in NewTransactions : InsertTransaction(w, t)
    /\ UNCHANGED pureVars

\* from_domain_entries; INSERT INTO transaction_entry ... VALUES: pending.
\* A statement the database does not parse (with no entry it has no VALUES
\* tuple) fails, `?` returns the error and the transaction rolls back.
PersistInsertEntries(w) ==
    /\ writer[w].pc = "persist_row"
    /\ LET entry_models == from_domain_entries(writer[w].id, writer[w].update.user_id,
                                               writer[w].update.entries)
       IN  IF Parses(push_values(entry_models, persist_entry_values))
           THEN writer' = [writer EXCEPT ![w].pc = "persist_entries",
                                    ![w].inserted = InsertedEntries(entry_models),
                                    ![w].accounts = CreatedAccounts(entry_models)]
           ELSE writer' = [writer EXCEPT ![w] = Idle("persist", "Err")]
    /\ UNCHANGED <<tables, now, next_id, reader, inputs, committed, pureVars, rateVars>>

\* tx.commit(): the pending rows reach the tables together
PersistCommit(w) ==
    /\ writer[w].pc = "persist_entries"
    /\ transaction' = transaction \cup {writer[w].row}
    /\ transaction_entry' = transaction_entry \cup writer[w].inserted
    /\ account' = account \cup writer[w].accounts
    /\ committed' = [id \in DOMAIN committed \cup {writer[w].id} |->
                        IF id = writer[w].id THEN writer[w].update ELSE committed[id]]
    /\ writer' = [writer EXCEPT ![w].pc = "persist_committed",
                                ![w].inserted = {}, ![w].accounts = {}]
    /\ UNCHANGED <<now, next_id, reader, inputs, pureVars, rateVars>>

\* the rows of a set in any order: what a SELECT without ORDER BY may return
Orderings(rows) ==
    {s \in [1..Cardinality(rows) -> rows] :
        \A i, j \in 1..Cardinality(rows) : i # j => s[i] # s[j]}

\* SELECT e.*, a.*, c.* FROM transaction_entry e LEFT JOIN account a ...
\* LEFT JOIN currency c ... WHERE e.transaction_id = $1: the rows of the
\* transaction as they are stored when the query runs, in any order
SelectedEntries(transaction_id) ==
    Orderings({e \in transaction_entry : e.transaction_id = transaction_id})

\* the account row joined to an entry row
AccountOf(entry) == CHOOSE a \in account : a.id = entry.account_id

\* models::Transaction::try_into_domain(&entries): the row with the selected
\* entries in the order the query returned them
transaction_try_into_domain(row, entries) ==
    [id |-> row.id, user_id |-> row.user_id, date |-> row.date,
     payee |-> row.payee, notes |-> row.notes, created_at |-> row.created_at,
     entries |-> [i \in 1..Len(entries) |->
                    [account |-> AccountOf(entries[i]).name,
                     currency |-> entries[i].currency,
                     amount |-> entries[i].amount]]]

\* the SELECT after the commit, run on the pool, and the return of the row
\* the INSERT returned with the entries the SELECT returned
PersistSelectEntries(w) ==
    /\ writer[w].pc = "persist_committed"
    /\ \E entries \in SelectedEntries(writer[w].id) :
        writer' = [writer EXCEPT ![w] =
            [Idle("persist", "Ok") EXCEPT
                !.id = writer[w].id, !.update = writer[w].update,
                !.row = transaction_try_into_domain(writer[w].row, entries)]]
    /\ UNCHANGED <<tables, now, next_id, reader, inputs, committed, pureVars, rateVars>>

\* the storage fails at a statement or at the commit: `?` returns the error,
\* tx is dropped and the database transaction rolls back; it fails at the
\* SELECT after the commit: the error is returned and the rows stay
PersistFails(w) ==
    /\ writer[w].pc \in {"persist_row", "persist_entries", "persist_committed"}
    /\ inputs.faults
    /\ writer' = [writer EXCEPT ![w] = Idle("persist", "Err")]
    /\ UNCHANGED <<tables, now, next_id, reader, inputs, committed, pureVars, rateVars>>

(***************************************************************************)
(* update_transaction, statement by statement                              *)
(***************************************************************************)
\* from_domain_entries; begin
UpdateCall(w, id, u) ==
    /\ writer' = [writer EXCEPT ![w] =
                [pc |-> "update_begin", call |-> "update", id |-> id, update |-> u, row |-> NoValue,
                 deleted |-> {}, inserted |-> {}, accounts |-> {},
                 result |-> NoValue]]
    /\ UNCHANGED <<tables, now, next_id, reader, inputs, committed, rateVars>>

\* update_transaction is called with an id and one of the NewTransaction values
UpdateBegin(w) ==
    /\ writer[w].pc = "idle"
    /\ \E id \in 1..inputs.max_tx, u \in NewTransactions : UpdateCall(w, id, u)
    /\ UNCHANGED pureVars

\* UPDATE transaction SET date, payee, notes WHERE id = $1 AND user_id = $2
\* RETURNING ...; fetch_one: no row is sqlx::Error::RowNotFound, which `?`
\* turns into UpdateTransactionError::TransactionNotFound
UpdateTransactionRow(w) ==
    /\ writer[w].pc = "update_begin"
    /\ ~Locked(writer[w].id)
    /\ LET target == TargetRows(writer[w].id, writer[w].update.user_id)
       IN  IF target = {}
           THEN writer' = [writer EXCEPT ![w] =
                    [Idle("update", "TransactionNotFound") EXCEPT
                        !.id = writer[w].id, !.update = writer[w].update]]
           ELSE \E row \in target :
                    writer' = [writer EXCEPT ![w].pc = "update_row",
                        ![w].row = UpdatedTransaction(row, writer[w].update)]
    /\ UNCHANGED <<tables, now, next_id, reader, inputs, committed, pureVars, rateVars>>

\* DELETE FROM transaction_entry WHERE transaction_id = $1
DeletedEntries(transaction_id) ==
    {e \in transaction_entry : e.transaction_id = transaction_id}

UpdateDeleteEntries(w) ==
    /\ writer[w].pc = "update_row"
    /\ writer' = [writer EXCEPT ![w].pc = "update_deleted",
            ![w].deleted = DeletedEntries(writer[w].id)]
    /\ UNCHANGED <<tables, now, next_id, reader, inputs, committed, pureVars, rateVars>>

\* the statements run on the pool and not in a database transaction: a
\* failed INSERT leaves the UPDATE and the DELETE before it in the tables
UpdateInsertEntriesOnPool(w) ==
    /\ writer[w].pc = "update_deleted"
    /\ transaction' = {t \in transaction : t.id # writer[w].id} \cup {writer[w].row}
    /\ transaction_entry' = transaction_entry \ writer[w].deleted
    /\ writer' = [writer EXCEPT ![w] =
            [Idle("update", "DatabaseError") EXCEPT
                !.id = writer[w].id, !.update = writer[w].update]]
    /\ UNCHANGED <<account, now, next_id, reader, inputs, committed, pureVars, rateVars>>

\* INSERT INTO transaction_entry ... VALUES: a statement the database does
\* not parse fails with a sqlx::Error that is not RowNotFound, which `?`
\* turns into UpdateTransactionError::DatabaseError; the transaction rolls
\* back
UpdateInsertEntries(w) ==
    /\ writer[w].pc = "update_deleted"
    /\ LET entry_models == from_domain_entries(writer[w].id, writer[w].update.user_id,
                                               writer[w].update.entries)
       IN  IF Parses(push_values(entry_models, update_entry_values))
           THEN writer' = [writer EXCEPT ![w].pc = "update_entries",
                                    ![w].inserted = InsertedEntries(entry_models),
                                    ![w].accounts = CreatedAccounts(entry_models)]
           ELSE writer' = [writer EXCEPT ![w] =
                    [Idle("update", "DatabaseError") EXCEPT
                        !.id = writer[w].id, !.update = writer[w].update]]
    /\ UNCHANGED <<tables, now, next_id, reader, inputs, committed, pureVars, rateVars>>

\* tx.commit().  No call gets here: the INSERT before it is never parsed, so
\* no specification takes this step.
UpdateCommit(w) ==
    /\ writer[w].pc = "update_entries"
    /\ transaction' = {t \in transaction : t.id # writer[w].id} \cup {writer[w].row}
    /\ transaction_entry' = (transaction_entry \ writer[w].deleted) \cup writer[w].inserted
    /\ account' = account \cup writer[w].accounts
    /\ committed' = [committed EXCEPT ![writer[w].id] = writer[w].update]
    /\ writer' = [writer EXCEPT ![w] =
            [Idle("update", "Ok") EXCEPT !.id = writer[w].id,
                                         !.update = writer[w].update]]
    /\ UNCHANGED <<now, next_id, reader, inputs, pureVars, rateVars>>

\* the storage fails at a statement or at the commit with another error
\* than RowNotFound: UpdateTransactionError::DatabaseError, and the
\* transaction rolls back
UpdateFails(w) ==
    /\ writer[w].pc \in {"update_begin", "update_row", "update_deleted", "update_entries"}
    /\ inputs.faults
    /\ writer' = [writer EXCEPT ![w] =
            [Idle("update", "DatabaseError") EXCEPT
                !.id = writer[w].id, !.update = writer[w].update]]
    /\ UNCHANGED <<tables, now, next_id, reader, inputs, committed, pureVars, rateVars>>

\* the update_transaction handler's outcome for what the command returned
update_response(command_result) ==
    CASE command_result = "Ok" -> "Updated"
      [] command_result = "TransactionNotFound" -> "NotFound"
      [] OTHER -> "InternalServerError"

(***************************************************************************)
(* list_transactions (repos/transactions.rs), query by query.  The four    *)
(* queries run on the pool outside any database transaction, so a write    *)
(* may commit between the page query and the entry query.  Accounts and    *)
(* currencies are never deleted, so their two queries are taken together   *)
(* with the entry query.                                                    *)
(***************************************************************************)
NoFilter == <<"no account">>

\* Option<TransactionCursor>::None (no date or time is negative)
NoCursor == [after_date |-> -1, after_created_at |-> -1]

\* text LIKE pattern: '%' matches any run of characters, '_' any one
\* character, a backslash takes the next character literally
RECURSIVE Like(_, _)
Like(text, pattern) ==
    IF pattern = << >> THEN text = << >>
    ELSE IF Head(pattern) = "%"
        THEN Like(text, Tail(pattern)) \/ (text # << >> /\ Like(Tail(text), pattern))
    ELSE IF Head(pattern) = "_"
        THEN text # << >> /\ Like(Tail(text), Tail(pattern))
    ELSE IF Head(pattern) = "\\" /\ Len(pattern) >= 2
        THEN /\ text # << >>
             /\ Head(text) = pattern[2]
             /\ Like(Tail(text), Tail(Tail(pattern)))
    ELSE /\ text # << >>
         /\ Head(text) = Head(pattern)
         /\ Like(Tail(text), Tail(pattern))

\* WITH account_transaction_ids AS (SELECT DISTINCT t.id FROM transaction_entry e
\* LEFT JOIN transaction t ... LEFT JOIN account a ...
\* WHERE a.name = $1 OR a.name LIKE $1 || ':%')
account_transaction_ids(transactions, entries, accounts, account_filter) ==
    {t.id : t \in {t \in transactions :
        \E e \in entries, a \in accounts :
            /\ e.transaction_id = t.id
            /\ e.account_id = a.id
            /\ \/ a.name = account_filter
               \/ Like(a.name, account_filter \o <<":", "%">>)}}

\* AND (t.date < $d OR (t.date = $d AND t.created_at < $c))
AfterCursorInclusive(t, cursor) ==
    \/ t.date < cursor.after_date
    \/ t.date = cursor.after_date /\ t.created_at <= cursor.after_created_at

AfterCursor(t, cursor) ==
    \/ t.date < cursor.after_date
    \/ t.date = cursor.after_date /\ t.created_at < cursor.after_created_at

\* the WHERE clause of the page query without its condition on the owner
EligibleOfAnyOwner(transactions, entries, accounts, query) ==
    {t \in transactions :
        /\ query.account # NoFilter
              => t.id \in account_transaction_ids(transactions, entries, accounts,
                                                  query.account)
        /\ query.after # NoCursor => AfterCursor(t, query.after)}

\* the WHERE clause of the page query, on given tables
EligibleOn(transactions, entries, accounts, query) ==
    {t \in transactions :
        /\ t.user_id = query.user_id
        /\ query.account # NoFilter
              => t.id \in account_transaction_ids(transactions, entries, accounts,
                                                  query.account)
        /\ query.after # NoCursor => AfterCursor(t, query.after)}

\* the WHERE clause of the page query, on the tables as they are stored
Eligible(query) == EligibleOn(transaction, transaction_entry, account, query)

\* ORDER BY t.date DESC, t.created_at DESC: a comes strictly before b
OrderedBefore(a, b) ==
    \/ a.date > b.date
    \/ a.date = b.date /\ a.created_at > b.created_at

\* ORDER BY ... LIMIT limit: the results the database may return; rows with
\* equal date and created_at come in any order
OrderedLimit(rows, limit) ==
    LET k == IF Cardinality(rows) < limit THEN Cardinality(rows) ELSE limit
    IN  {r \in [1..k -> rows] :
            /\ \A i, j \in 1..k : i < j => r[i] # r[j] /\ ~OrderedBefore(r[j], r[i])
            /\ \A t \in rows \ Range(r) : \A i \in 1..k : ~OrderedBefore(t, r[i])}

\* transactions_data.len() > TRANSACTION_PAGE_SIZE
has_next_page_at_limit(rows) == Len(rows) >= TRANSACTION_PAGE_SIZE

has_next_page(rows) == Len(rows) > TRANSACTION_PAGE_SIZE

\* the page query and the pop() of the extra row
PageResults(query) ==
    {[transactions_data |-> IF has_next_page(rows)
                            THEN SubSeq(rows, 1, Len(rows) - 1) ELSE rows,
      has_next_page |-> has_next_page(rows)] :
        rows \in OrderedLimit(Eligible(query), TRANSACTION_PAGE_SIZE + 1)}

\* SELECT * FROM transaction_entry e WHERE e.transaction_id = ANY($1)
\* ORDER BY e."order": the results the database may return; entries with equal
\* "order" come in any order
RECURSIVE OrderedEntries(_)
OrderedEntries(rows) ==
    IF rows = {} THEN {<< >>}
    ELSE UNION {{<<e>> \o rest : rest \in OrderedEntries(rows \ {e})} :
                    e \in {e \in rows : \A other \in rows : e.order <= other.order}}

\* zip_with_entries without the lookup by transaction id: every transaction
\* is given every fetched entry
zip_all_entries(transactions, entries, currencies, accounts) ==
    [kind |-> "Ok",
     items |-> [i \in 1..Len(transactions) |->
        [transaction |-> transactions[i],
         entries |-> [k \in 1..Len(entries) |->
            [entry |-> entries[k],
             account |-> CHOOSE a \in accounts : a.id = entries[k].account_id,
             currency |-> currencies[entries[k].currency]]]]]]

\* TransactionWithEntries::zip_with_entries
zip_with_entries(transactions, entries, currencies, accounts) ==
    LET unmatched == {i \in 1..Len(entries) :
            \/ ~\E a \in accounts : a.id = entries[i].account_id
            \/ entries[i].currency \notin DOMAIN currencies}
        full_entry(entry) ==
            [entry |-> entry,
             account |-> CHOOSE a \in accounts : a.id = entry.account_id,
             currency |-> currencies[entry.currency]]
        entries_by_transaction_id(id) ==
            LET of_id == SelectSeq(entries, LAMBDA e : e.transaction_id = id)
            IN  [i \in 1..Len(of_id) |-> full_entry(of_id[i])]
    IN  IF unmatched # {} THEN [kind |-> "Err", items |-> << >>]
        ELSE [kind |-> "Ok",
              items |-> [i \in 1..Len(transactions) |->
                    [transaction |-> transactions[i],
                     entries |-> entries_by_transaction_id(transactions[i].id)]]]

\* the cursor built from the last retained transaction
next_cursor(transactions_data, has_next) ==
    IF has_next
    THEN [after_date |-> transactions_data[Len(transactions_data)].date,
          after_created_at |-> transactions_data[Len(transactions_data)].created_at]
    ELSE NoCursor

NoReader ==
    [pc |-> "idle", query |-> NoValue, transactions_data |-> << >>,
     has_next_page |-> FALSE, items |-> << >>, next |-> NoCursor,
     seen |-> << >>, calls |-> 0, first_table |-> {}]

\* the first call of a listing: no cursor.  first_table remembers the rows
\* stored at that moment.
ListFirstPage ==
    /\ reader.pc = "idle"
    /\ \E user_id \in inputs.users, account_filter \in inputs.filters :
        LET query == [user_id |-> user_id, account |-> account_filter, after |-> NoCursor]
        IN  \E page \in PageResults(query) :
                reader' = [NoReader EXCEPT !.pc = "page", !.query = query,
                    !.transactions_data = page.transactions_data,
                    !.has_next_page = page.has_next_page,
                    !.first_table = transaction]
    /\ UNCHANGED <<tables, now, next_id, writer, inputs, committed, pureVars, rateVars>>

\* the entry, account and currency queries, zip_with_entries and the cursor
ListEntries ==
    /\ reader.pc = "page"
    /\ LET transaction_ids == {t.id : t \in Range(reader.transactions_data)}
       IN  \E entries \in OrderedEntries({e \in transaction_entry :
                                            e.transaction_id \in transaction_ids}) :
            LET accounts == {a \in account : a.id \in {e.account_id : e \in Range(entries)}}
                zipped == zip_with_entries(reader.transactions_data, entries,
                                           CurrencyTable, accounts)
            IN  IF zipped.kind = "Err"
                THEN reader' = [reader EXCEPT !.pc = "failed"]
                ELSE reader' = [reader EXCEPT !.pc = "done",
                        !.items = zipped.items,
                        !.next = next_cursor(reader.transactions_data, reader.has_next_page),
                        !.seen = reader.seen \o zipped.items,
                        !.calls = reader.calls + 1]
    /\ UNCHANGED <<tables, now, next_id, writer, inputs, committed, pureVars, rateVars>>

\* the client calls list again with the cursor it was given
ListNextPage ==
    /\ reader.pc = "done"
    /\ reader.next # NoCursor
    /\ LET query == [reader.query EXCEPT !.after = reader.next]
       IN  \E page \in PageResults(query) :
                reader' = [reader EXCEPT !.pc = "page", !.query = query,
                    !.transactions_data = page.transactions_data,
                    !.has_next_page = page.has_next_page]
    /\ UNCHANGED <<tables, now, next_id, writer, inputs, committed, pureVars, rateVars>>

(***************************************************************************)
(* The store as a state machine.  Every specification starts with empty    *)
(* tables and differs in the calls it makes and the values they carry.     *)
(***************************************************************************)
InitStore(given) ==
    /\ NoPure
    /\ NoRate
    /\ inputs = given
    /\ transaction = {} /\ transaction_entry = {} /\ account = {}
    /\ now = 0
    /\ next_id = 1
    /\ writer = [w \in given.writers |-> Idle("none", NoValue)]
    /\ reader = NoReader
    /\ committed = << >>

DomainEntry(account_name, code, amount) ==
    [account |-> account_name, currency |-> code, amount |-> amount]

\* a domain NewTransaction
DomainTransaction(user_id, date, payee, notes, entries) ==
    [user_id |-> user_id, date |-> date, payee |-> payee, notes |-> notes,
     entries |-> entries]

\* Listing page by page while one connection persists transactions of the
\* same user: dates and creation times vary, everything else is fixed.
PageInputs ==
    [users |-> {"u1"}, writers |-> {"w1"},
     new_transactions |->
        {DomainTransaction("u1", date, "P", "",
            <<DomainEntry(<<"E">>, "USD", 1), DomainEntry(<<"A">>, "USD", -1)>>) :
                date \in {1, 2}},
     filters |-> {NoFilter}, faults |-> FALSE, ticks |-> {0, 1}, max_tx |-> MaxTx]

InitPage == InitStore(PageInputs)

NextPage ==
    \/ \E w \in DOMAIN writer :
        \/ PersistInsertTransaction(w)
        \/ PersistInsertEntries(w)
        \/ PersistCommit(w)
        \/ PersistSelectEntries(w)
    \/ ListFirstPage
    \/ ListEntries
    \/ ListNextPage

SpecPage == InitPage /\ [][NextPage]_vars

(***************************************************************************)
(* Pagination                                                              *)
(***************************************************************************)
\* the listing has reached a response without a next cursor
Finished == reader.pc = "done" /\ reader.next = NoCursor

\* the rows of the listing's user that were stored at the first call
FirstRows == {t \in reader.first_table : t.user_id = reader.query.user_id}

Occurrences(id) == {i \in 1..Len(reader.seen) : reader.seen[i].transaction.id = id}

\* the concatenated items hold every row of the first call exactly once, no
\* row twice, in canonical order
Complete ==
    /\ \A t \in FirstRows : Cardinality(Occurrences(t.id)) = 1
    /\ \A i \in 1..Len(reader.seen) :
            Cardinality(Occurrences(reader.seen[i].transaction.id)) = 1
    /\ \A i, j \in 1..Len(reader.seen) :
            i < j => ~OrderedBefore(reader.seen[j].transaction, reader.seen[i].transaction)

\* C12 (as claimed): whatever the dates and creation times of the stored
\* transactions, following the next cursors from a first call without cursor
\* until next is absent yields every transaction that existed at the first
\* call exactly once, none twice, in canonical order, also when transactions
\* are inserted between the calls.
C12_PaginationComplete == Finished => Complete

\* no two rows of a user have the same date and the same created_at
DistinctKeys ==
    \A a, b \in transaction :
        (a.user_id = b.user_id /\ a.date = b.date /\ a.created_at = b.created_at)
            => a = b

\* The same when no two rows of the user share date and created_at
PaginationCompleteDistinctKeys == (Finished /\ DistinctKeys) => Complete

\* the (date, created_at) pair of a is strictly less than that of b
KeyLess(a_date, a_created_at, b_date, b_created_at) ==
    \/ a_date < b_date
    \/ a_date = b_date /\ a_created_at < b_created_at

\* C13: the items of every page are sorted by date descending, then
\* created_at descending, and when the call had an after cursor every item's
\* (date, created_at) pair is strictly less than the cursor's.
C13_CanonicalOrderStrictCursor ==
    reader.pc = "done" =>
        /\ \A i, j \in 1..Len(reader.items) :
            i < j => ~KeyLess(reader.items[i].transaction.date,
                              reader.items[i].transaction.created_at,
                              reader.items[j].transaction.date,
                              reader.items[j].transaction.created_at)
        /\ reader.query.after # NoCursor =>
            \A i \in 1..Len(reader.items) :
                KeyLess(reader.items[i].transaction.date,
                        reader.items[i].transaction.created_at,
                        reader.query.after.after_date,
                        reader.query.after.after_created_at)

\* a page fetched after a cursor holds two items of different keys while a
\* row with the cursor's own key is stored
C13_Witness ==
    /\ reader.pc = "done"
    /\ reader.query.after # NoCursor
    /\ Len(reader.items) = 2
    /\ reader.items[1].transaction.date # reader.items[2].transaction.date
    /\ \E t \in transaction :
        /\ t.date = reader.query.after.after_date
        /\ t.created_at = reader.query.after.after_created_at

IsPrefix(prefix, text) ==
    Len(prefix) <= Len(text) /\ SubSeq(text, 1, Len(prefix)) = prefix

\* the account named A or a descendant of it: A followed by ':'
InAccountTree(name, A) == name = A \/ IsPrefix(A \o <<":">>, name)

\* transaction t has an entry on the account A or on a descendant of it
OnAccount(t, A) ==
    \E e \in transaction_entry, a \in account :
        /\ e.transaction_id = t.id
        /\ e.account_id = a.id
        /\ InAccountTree(a.name, A)

\* the rows a query is about: the user's, on the account when one is given,
\* strictly after the cursor when one is given
EligibleRows(query) ==
    {t \in transaction :
        /\ t.user_id = query.user_id
        /\ query.account # NoFilter => OnAccount(t, query.account)
        /\ query.after # NoCursor =>
                KeyLess(t.date, t.created_at,
                        query.after.after_date, query.after.after_created_at)}

\* a step that runs the page query
PageStep == reader'.pc = "page" /\ reader' # reader

\* the page is the first TRANSACTION_PAGE_SIZE eligible rows in canonical
\* order, and has_next_page tells whether more are eligible
FirstEligibleRows ==
    LET rows == EligibleRows(reader'.query)
        page == reader'.transactions_data
        size == IF Cardinality(rows) < TRANSACTION_PAGE_SIZE
                THEN Cardinality(rows) ELSE TRANSACTION_PAGE_SIZE
    IN  /\ Len(page) <= TRANSACTION_PAGE_SIZE
        /\ Len(page) = size
        /\ Range(page) \subseteq rows
        /\ \A i, j \in 1..Len(page) :
                i < j => page[i] # page[j] /\ ~OrderedBefore(page[j], page[i])
        /\ \A t \in rows \ Range(page) :
                \A i \in 1..Len(page) : ~OrderedBefore(t, page[i])
        /\ reader'.has_next_page <=> Cardinality(rows) > TRANSACTION_PAGE_SIZE

\* the response carries the page, and a next cursor exactly when more rows
\* were eligible: the key of the last returned item
NextOfLastItem ==
    reader.pc = "done" =>
        /\ Len(reader.items) = Len(reader.transactions_data)
        /\ \A i \in 1..Len(reader.items) :
                reader.items[i].transaction = reader.transactions_data[i]
        /\ reader.next # NoCursor <=> reader.has_next_page
        /\ reader.next # NoCursor =>
            /\ reader.items # << >>
            /\ reader.next.after_date = reader.items[Len(reader.items)].transaction.date
            /\ reader.next.after_created_at =
                    reader.items[Len(reader.items)].transaction.created_at

\* C14: list returns at most TRANSACTION_PAGE_SIZE items, the first eligible
\* rows in canonical order; next is present exactly when more rows than one
\* page are eligible, and then it is the (date, created_at) of the last
\* returned item, not of the dropped extra row.
C14_PageSizeAndNext ==
    /\ [][PageStep => FirstEligibleRows]_vars
    /\ []NextOfLastItem

\* a full page was returned with a next cursor while the dropped row has
\* another key than the last returned one
C14_Witness ==
    /\ reader.pc = "done"
    /\ reader.next # NoCursor
    /\ Len(reader.items) = TRANSACTION_PAGE_SIZE
    /\ \E t \in EligibleRows(reader.query) :
        /\ t \notin Range(reader.transactions_data)
        /\ t.created_at # reader.next.after_created_at

\* ceil(n / TRANSACTION_PAGE_SIZE)
PagesOf(n) == (n + TRANSACTION_PAGE_SIZE - 1) \div TRANSACTION_PAGE_SIZE

\* a finished listing during which nothing was written, of a user with rows
QuietListing ==
    /\ Finished
    /\ transaction = reader.first_table
    /\ FirstRows # {}

\* C15 (as claimed): for a user with N >= 1 stored transactions and no
\* concurrent write, following the next cursors reaches the response without
\* next after exactly ceil(N / TRANSACTION_PAGE_SIZE) calls.
C15_PaginationCalls ==
    QuietListing => reader.calls = PagesOf(Cardinality(FirstRows))

\* The same when no two rows of the user share date and created_at
PaginationCallsDistinctKeys ==
    (QuietListing /\ DistinctKeys) => reader.calls = PagesOf(Cardinality(FirstRows))

(***************************************************************************)
(* Listing with an account filter: two users persist transactions on       *)
(* accounts of one tree, and a listing filters by account.                 *)
(***************************************************************************)
\* at most this many transaction ids are generated while filters are listed
MaxFilterTx == 3

\* "E:F" stands for Expenses:Food, "E:F:O" for a descendant of it, "E:Fs" for
\* Expenses:Foods, "B" for an unrelated account
FilterEntryLists ==
    {<<DomainEntry(<<"E", ":", "F">>, "USD", 1), DomainEntry(<<"B">>, "USD", -1)>>,
     <<DomainEntry(<<"E", ":", "F", ":", "O">>, "USD", 1),
       DomainEntry(<<"B">>, "USD", -2),
       DomainEntry(<<"E", ":", "F">>, "USD", 1)>>,
     <<DomainEntry(<<"B">>, "JPY", -1), DomainEntry(<<"E", ":", "F", "s">>, "JPY", 1)>>}

FilterInputs ==
    [users |-> {"u1", "u2"}, writers |-> {"w1"},
     new_transactions |->
        {DomainTransaction(user_id, 1, "P", "", entries) :
            user_id \in {"u1", "u2"}, entries \in FilterEntryLists},
     filters |-> {NoFilter, <<"E", ":", "F">>, <<"E">>, <<"B">>, <<"%">>},
     faults |-> FALSE, ticks |-> {1}, max_tx |-> MaxFilterTx]

InitFilter == InitStore(FilterInputs)

NextFilter ==
    \/ \E w \in DOMAIN writer :
        \/ PersistInsertTransaction(w)
        \/ PersistInsertEntries(w)
        \/ PersistCommit(w)
        \/ PersistSelectEntries(w)
    \/ ListFirstPage
    \/ ListEntries
    \/ ListNextPage

SpecFilter == InitFilter /\ [][NextFilter]_vars

\* the listing returned exactly the user's transactions on the account tree
\* of its filter, each once
ReturnedAccountTree ==
    /\ {reader.seen[i].transaction.id : i \in 1..Len(reader.seen)}
            = {t.id : t \in {t \in transaction :
                    t.user_id = reader.query.user_id /\ OnAccount(t, reader.query.account)}}
    /\ \A i \in 1..Len(reader.seen) :
            Cardinality(Occurrences(reader.seen[i].transaction.id)) = 1

\* C16 (as claimed): for every filter string A, list with account = A returns
\* exactly the user's transactions with at least one entry whose account name
\* is A or starts with A followed by ':', each once, and none whose account
\* only shares a textual prefix with A.
C16_AccountFilter ==
    (QuietListing /\ reader.query.account # NoFilter) => ReturnedAccountTree

\* The same for the filters without the characters '%', '_' and backslash
AccountFilterPlain ==
    (/\ Finished
     /\ transaction = reader.first_table
     /\ reader.query.account # NoFilter
     /\ \A i \in 1..Len(reader.query.account) :
            reader.query.account[i] \notin {"%", "_", "\\"})
        => ReturnedAccountTree

\* a step that fetches the entries of the page and builds the response
EntriesStep == reader.pc = "page" /\ reader'.pc = "done"

\* the entries item carries are the stored entries of its transaction, in
\* ascending "order", each at the position it had in the list that was
\* persisted
CarriesOwnEntries(item) ==
    LET id == item.transaction.id
        stored == {e \in transaction_entry : e.transaction_id = id}
        given == committed[id].entries
    IN  /\ Len(item.entries) = Cardinality(stored)
        /\ {item.entries[k].entry : k \in 1..Len(item.entries)} = stored
        /\ \A k, l \in 1..Len(item.entries) :
                k < l => item.entries[k].entry.order < item.entries[l].entry.order
        /\ Len(item.entries) = Len(given)
        /\ \A k \in 1..Len(given) :
            /\ item.entries[k].account.name = given[k].account
            /\ item.entries[k].entry.currency = given[k].currency
            /\ item.entries[k].entry.amount = given[k].amount

Regrouped ==
    /\ Len(reader'.items) = Len(reader.transactions_data)
    /\ \A i \in 1..Len(reader'.items) :
        /\ reader'.items[i].transaction = reader.transactions_data[i]
        /\ CarriesOwnEntries(reader'.items[i])

\* C17: every transaction returned by list carries exactly the stored entries
\* whose transaction_id is its id, none of another transaction and none
\* missing, in ascending stored order, which is the position each entry had in
\* the list given when the transaction was persisted; the regrouping keeps the
\* order of the transactions of the page.
C17_EntryRegrouping == [][EntriesStep => Regrouped]_vars

\* a page of two transactions with entry lists of different lengths
C17_Witness ==
    /\ reader.pc = "done"
    /\ Len(reader.items) = 2
    /\ Len(reader.items[1].entries) = 3
    /\ Len(reader.items[2].entries) = 2

(***************************************************************************)
(* Writing: two connections persist and update transactions of two users,  *)
(* statement by statement.                                                 *)
(***************************************************************************)
\* at most this many transaction ids are generated while writes interleave
MaxWriteTx == 2

\* one transaction of two entries and one of three per user, and one without
\* entries, which NewTransaction::new accepts
WriteTransactions ==
    {DomainTransaction(user_id, 1, "P", "",
        <<DomainEntry(<<"E">>, "USD", 1), DomainEntry(<<"B">>, "USD", -1)>>) :
            user_id \in {"u1", "u2"}}
    \cup
    {DomainTransaction(user_id, 2, "Q", "n",
        <<DomainEntry(<<"B">>, "USD", 2), DomainEntry(<<"E">>, "USD", -1),
          DomainEntry(<<"E">>, "USD", -1)>>) : user_id \in {"u1", "u2"}}
    \cup
    {DomainTransaction("u1", 1, "P", "", << >>)}

WriteInputs ==
    [users |-> {"u1", "u2"}, writers |-> {"w1", "w2"},
     new_transactions |-> WriteTransactions,
     filters |-> {NoFilter}, faults |-> TRUE, ticks |-> {1}, max_tx |-> MaxWriteTx]

\* the storage is one where any statement may fail, or one that works
InitWrite == \E faults \in BOOLEAN : InitStore([WriteInputs EXCEPT !.faults = faults])

NextWrite ==
    \E w \in DOMAIN writer :
        \/ PersistInsertTransaction(w)
        \/ PersistInsertEntries(w)
        \/ PersistCommit(w)
        \/ PersistSelectEntries(w)
        \/ PersistFails(w)
        \/ UpdateBegin(w)
        \/ UpdateTransactionRow(w)
        \/ UpdateDeleteEntries(w)
        \/ UpdateInsertEntries(w)
        \/ UpdateFails(w)

SpecWrite == InitWrite /\ [][NextWrite]_vars

\* in the given tables the entries of transaction id are exactly the entries
\* of list, each at its position, on accounts of owner
EntriesAre(entry_table, account_table, id, owner, list) ==
    LET stored == {e \in entry_table : e.transaction_id = id}
    IN  /\ Cardinality(stored) = Len(list)
        /\ \A k \in 1..Len(list) :
            \E e \in stored, a \in account_table :
                /\ e.order = k - 1
                /\ e.account_id = a.id
                /\ a.user_id = owner
                /\ a.name = list[k].account
                /\ e.currency = list[k].currency
                /\ e.amount = list[k].amount

\* C18: in every committed state reachable by interleaved persist_transaction
\* and update_transaction calls, calls that fail part-way included, each
\* stored transaction row has the fields and the complete entry list of one
\* call, the one that committed it last, and nothing else is stored: no entry
\* of a failed call, of a replaced version or without its row.
C18_AtomicWrites ==
    /\ \A t \in transaction :
        /\ t.id \in DOMAIN committed
        /\ t.user_id = committed[t.id].user_id
        /\ t.date = committed[t.id].date
        /\ t.payee = committed[t.id].payee
        /\ t.notes = committed[t.id].notes
        /\ EntriesAre(transaction_entry, account, t.id, t.user_id,
                      committed[t.id].entries)
    /\ \A e \in transaction_entry : \E t \in transaction : t.id = e.transaction_id
    /\ \A a, b \in transaction : a.id = b.id => a = b

\* an update of a transaction stored with three entries has ended with
\* DatabaseError, and a persist of the other connection has failed
C18_Witness ==
    \E t \in transaction : \E w, v \in DOMAIN writer :
        /\ Len(committed[t.id].entries) = 3
        /\ writer[w].pc = "idle"
        /\ writer[w].call = "update"
        /\ writer[w].result = "DatabaseError"
        /\ writer[w].id = t.id
        /\ writer[w].update.user_id = t.user_id
        /\ Len(writer[w].update.entries) = 2
        /\ writer[v].pc = "idle"
        /\ writer[v].call = "persist"
        /\ writer[v].result = "Err"

\* the step that ends an update_transaction call of connection w whose
\* UPDATE found the target, with entries to insert, on a storage that works
UpdateEndStep(w) ==
    /\ writer[w].pc \in {"update_row", "update_deleted", "update_entries"}
    /\ writer'[w].pc = "idle"
    /\ writer[w].update.entries # << >>
    /\ ~inputs.faults

\* the call replaced the target by the update and changed nothing else
ReplacedOnlyTarget(id, u) ==
    /\ \E before \in transaction : \E after \in transaction' :
        /\ before.id = id
        /\ after.id = id
        /\ after.date = u.date /\ after.payee = u.payee /\ after.notes = u.notes
        /\ after.user_id = before.user_id /\ after.created_at = before.created_at
        /\ \A t \in transaction' : t.id = id => t = after
        /\ EntriesAre(transaction_entry', account', id, before.user_id, u.entries)
    /\ {t \in transaction' : t.id # id} = {t \in transaction : t.id # id}
    /\ {e \in transaction_entry' : e.transaction_id # id}
            = {e \in transaction_entry : e.transaction_id # id}

\* C19 (as claimed): update_transaction(id, u) of a stored transaction of u's
\* user succeeds, and after it the stored transaction id has the date, payee
\* and notes of u and exactly the entries of u in u's order, none of the
\* previous version; its id, user_id and created_at are unchanged, and so is
\* every other stored transaction with its entries.
C19_UpdateReplacesTarget ==
    [][\A w \in DOMAIN writer :
        UpdateEndStep(w) =>
            /\ writer'[w].result = "Ok"
            /\ ReplacedOnlyTarget(writer[w].id, writer[w].update)]_vars

\* What update_transaction does to a stored transaction instead: the call
\* ends at the INSERT with DatabaseError and no table changes.
UpdateNeverCommits ==
    [][\A w \in DOMAIN writer :
        UpdateEndStep(w) =>
            /\ writer[w].pc = "update_deleted"
            /\ writer'[w].result = "DatabaseError"
            /\ update_response(writer'[w].result) = "InternalServerError"
            /\ UNCHANGED tables]_vars

\* connection w runs the UPDATE statement of update_transaction, or fails
UpdateStatementStep(w) == writer[w].pc = "update_begin" /\ writer'[w] # writer[w]

\* no stored transaction has the id and the owner of the update of w
MissingTarget(w) ==
    ~\E t \in transaction : t.id = writer[w].id /\ t.user_id = writer[w].update.user_id

\* C20: update_transaction with an id that does not exist, or that belongs to
\* another user than the update's user_id, returns TransactionNotFound, which
\* the handler answers with NotFound, unless the storage itself fails; either
\* way no transaction row and no entry row changes, the entries of another
\* user's transaction with that id included.
C20_UpdateMissingTarget ==
    [][\A w \in DOMAIN writer :
        (UpdateStatementStep(w) /\ MissingTarget(w)) =>
            /\ UNCHANGED <<transaction, transaction_entry>>
            /\ writer'[w].pc = "idle"
            /\ \/ UpdateFails(w)
               \/ /\ writer'[w].result = "TransactionNotFound"
                  /\ update_response(writer'[w].result) = "NotFound"]_vars

\* an update of another user's transaction, stored with its entries, has
\* returned TransactionNotFound
C20_Witness ==
    \E w \in DOMAIN writer : \E t \in transaction :
        /\ writer[w].pc = "idle"
        /\ writer[w].result = "TransactionNotFound"
        /\ t.id = writer[w].id
        /\ t.user_id # writer[w].update.user_id
        /\ EntriesAre(transaction_entry, account, t.id, t.user_id, committed[t.id].entries)
        /\ committed[t.id].entries # << >>

(***************************************************************************)
(* C25: the unwrap of NewTransaction::new                                  *)
(***************************************************************************)
\* C25 (as claimed): NewTransaction::new never aborts: for every input it
\* returns Ok or Err(Unbalanced), because every entry has a concrete amount
\* whenever the validated entries are constructed; this includes inputs with
\* exactly one entry without an amount whose other entries sum to zero in
\* every currency.
C25_NewNeverAborts ==
    pc = "new" => result.kind \in {"Ok", "Err"}

\* the input has exactly one entry without an amount and the sums that new
\* computes over the others are zero in every currency
UnusedBalancingEntry(entries, checks) ==
    LET s == new_loop(entries, 1, EmptyMap, 0, FALSE, checks)
    IN  /\ ~s.panic
        /\ Cardinality(Missing(entries)) = 1
        /\ NonZero(s.sums) = {}

\* Where new aborts: in a build without overflow checks only on the unwrap of
\* the one missing amount that no currency needed; and on that input it aborts
\* in every build.
NewAbortsOnUnusedBalancingEntry ==
    pc = "new" =>
        /\ UnusedBalancingEntry(data.entries, overflow_checks) => result.kind = "panic"
        /\ (~overflow_checks /\ result.kind = "panic")
              => UnusedBalancingEntry(data.entries, overflow_checks)

(***************************************************************************)
(* C29: sums over the whole i32 range                                      *)
(***************************************************************************)
\* value is exactly -sum
ExactNegation(v, sum) == ExactSum(<<v, sum>>) = <<0, 0>>

\* the amount NewTransaction::new gives the entry without an amount is exactly
\* -s for the one non-zero sum s its loop reached
NewBalancesExactly ==
    LET s == new_loop(data.entries, 1, EmptyMap, 0, FALSE, overflow_checks)
    IN  (/\ ~s.panic /\ ~s.cannot_be_balanced /\ s.balancing_entry # 0
         /\ Cardinality(NonZero(s.sums)) = 1)
        => /\ result.kind = "Ok"
           /\ ExactNegation(result.entries[s.balancing_entry].value,
                            s.sums[TheOne(NonZero(s.sums))])

\* the same for try_balance, which from_data runs first
TryBalanceBalancesExactly ==
    LET s == try_balance_loop(data.entries, 1, EmptyMap, 0, overflow_checks)
        b == try_balance(data.entries, overflow_checks)
    IN  (/\ s.status = "summed" /\ s.balancing_entry # 0
         /\ Cardinality(NonZero(s.currency_sums)) = 1)
        => /\ ~b.panic
           /\ ExactNegation(b.entries[s.balancing_entry].amount.value,
                            s.currency_sums[TheOne(NonZero(s.currency_sums))])

\* C29 (as claimed): for entries whose amounts are arbitrary i32 values, a
\* transaction whose entries all have an amount is accepted only if the exact
\* sum of its entries is zero in every currency (no running sum wraps to
\* zero), and the auto-balance amount is exactly -s for every sum s the loop
\* reaches, s = -2^31 included.
C29_ExactSums ==
    /\ (pc \in {"from_data", "new"} /\ result.kind = "Ok"
        /\ Missing(data.entries) = {})
          => UnbalancedInput(data.entries) = {}
    /\ pc = "new" => NewBalancesExactly
    /\ pc = "from_data" => TryBalanceBalancesExactly

\* C29 whenever no sum and no negation can leave the i32 range
ExactSumsSmall ==
    (pc \in {"from_data", "new"} /\ SmallValues(data.entries)) => C29_ExactSums

(***************************************************************************)
(* C30: texts without a digit                                              *)
(***************************************************************************)
HasDigit(text) == \E i \in 1..Len(text) : IsDigit(text[i])

\* C30 (as claimed): for every currency, whatever its minor_units,
\* parse_amount returns Ok only for a text that contains at least one digit,
\* and every text without any digit yields InvalidNumber carrying the raw
\* text unmodified.
C30_NoValueWithoutDigits ==
    pc = "parse_amount" =>
        /\ parsed.kind = "Ok" => HasDigit(raw_amount)
        /\ ~HasDigit(raw_amount) => parsed = InvalidNumber(raw_amount)

\* What parse_amount does with a text without digits: Ok is possible only
\* where the zero padding supplies the digits (minor_units >= 1), the value is
\* then 0; and an InvalidNumber always carries the raw text.
NoDigitsOkOnlyByPadding ==
    pc = "parse_amount" =>
        /\ (parsed.kind = "Ok" /\ ~HasDigit(raw_amount))
              => currency.minor_units >= 1 /\ parsed.value = 0
        /\ parsed.kind = "InvalidNumber" => parsed.raw = raw_amount

(***************************************************************************)
(* delete_transaction (commands/postgres.rs): one DELETE statement run on  *)
(* the pool, outside any explicit database transaction, so it commits by   *)
(* itself.  The DELETE needs the row's lock: while an update_transaction   *)
(* holds it the statement waits, and it then sees the committed row.       *)
(***************************************************************************)
\* a DELETE whose WHERE clause lacks the owner
DeletedTransactionsOfAnyOwner(owner_id, transaction_id) ==
    {t \in transaction : t.id = transaction_id}

\* DELETE FROM "transaction" WHERE user_id = $1 AND id = $2
DeletedTransactions(owner_id, transaction_id) ==
    {t \in transaction : t.user_id = owner_id /\ t.id = transaction_id}

\* the entry rows that go with deleted transaction rows: table
\* transaction_entry references transaction and its rows are removed with
\* the row they belong to
CascadedEntries(deleted_rows) ==
    {e \in transaction_entry : \E t \in deleted_rows : e.transaction_id = t.id}

\* .map(|result| { info!(rows = result.rows_affected(), ..) }): the number
\* of rows is logged and success is returned whatever it is
delete_result(rows_affected) == "Ok"

\* the arguments of a delete_transaction call, kept with its result
DeleteCall(owner_id, transaction_id) == [user_id |-> owner_id, id |-> transaction_id]

\* the call arrives with its arguments
DeleteBegin(w) ==
    /\ writer[w].pc = "idle"
    /\ \E owner_id \in inputs.users, transaction_id \in 1..inputs.max_tx :
        writer' = [writer EXCEPT ![w] =
            [pc |-> "delete_begin", call |-> "delete", id |-> transaction_id,
             update |-> DeleteCall(owner_id, transaction_id), row |-> NoValue,
             deleted |-> {}, inserted |-> {}, accounts |-> {},
             result |-> NoValue]]
    /\ UNCHANGED <<tables, now, next_id, reader, inputs, committed, pureVars, rateVars>>

\* the DELETE runs and commits
DeleteTransaction(w) ==
    /\ writer[w].pc = "delete_begin"
    /\ ~Locked(writer[w].id)
    /\ LET deleted == DeletedTransactions(writer[w].update.user_id, writer[w].id)
       IN  /\ transaction' = transaction \ deleted
           /\ transaction_entry' = transaction_entry \ CascadedEntries(deleted)
           /\ writer' = [writer EXCEPT ![w] =
                  [Idle("delete", delete_result(Cardinality(deleted))) EXCEPT
                      !.id = writer[w].id, !.update = writer[w].update]]
    /\ UNCHANGED <<account, now, next_id, reader, inputs, committed, pureVars, rateVars>>

\* the statement fails: `?` returns the error and nothing is deleted
DeleteFails(w) ==
    /\ writer[w].pc = "delete_begin"
    /\ inputs.faults
    /\ writer' = [writer EXCEPT ![w] =
            [Idle("delete", "Err") EXCEPT
                !.id = writer[w].id, !.update = writer[w].update]]
    /\ UNCHANGED <<tables, now, next_id, reader, inputs, committed, pureVars, rateVars>>

\* the delete_transaction handler's outcome for what the command returned
delete_response(command_result) ==
    IF command_result = "Ok" THEN "NO_CONTENT" ELSE "InternalServerError"

(***************************************************************************)
(* Deleting: two connections persist and delete transactions of two users. *)
(***************************************************************************)
DeleteInputs ==
    [users |-> {"u1", "u2"}, writers |-> {"w1", "w2"},
     new_transactions |->
        {t \in WriteTransactions : t.entries # << >>},
     filters |-> {NoFilter}, faults |-> TRUE, ticks |-> {1}, max_tx |-> MaxWriteTx]

InitDelete == InitStore(DeleteInputs)

NextDelete ==
    \E w \in DOMAIN writer :
        \/ PersistInsertTransaction(w)
        \/ PersistInsertEntries(w)
        \/ PersistCommit(w)
        \/ PersistSelectEntries(w)
        \/ PersistFails(w)
        \/ DeleteBegin(w)
        \/ DeleteTransaction(w)
        \/ DeleteFails(w)

SpecDelete == InitDelete /\ [][NextDelete]_vars

\* connection w runs the DELETE of delete_transaction in this step
DeleteStep(w) ==
    /\ writer[w].pc = "delete_begin"
    /\ writer'[w].pc = "idle"
    /\ writer'[w].result = "Ok"

\* the rows of the given table with this id and owner
StoredAs(rows, owner_id, transaction_id) ==
    {t \in rows : t.id = transaction_id /\ t.user_id = owner_id}

\* what one delete_transaction(owner, id) does: success; afterwards no
\* transaction with that id and owner; every other transaction and its
\* entries stay as they were; and when no transaction has that id and owner
\* nothing changes at all
DeletesOnlyTarget(w) ==
    LET owner_id == writer'[w].update.user_id
        transaction_id == writer'[w].id
        target == StoredAs(transaction, owner_id, transaction_id)
    IN  /\ delete_response(writer'[w].result) = "NO_CONTENT"
        /\ StoredAs(transaction', owner_id, transaction_id) = {}
        /\ transaction' = transaction \ target
        /\ target = {} => tables' = tables
        /\ {e \in transaction_entry' : e.transaction_id # transaction_id}
              = {e \in transaction_entry : e.transaction_id # transaction_id}
        /\ account' = account

\* C21: delete_transaction(owner, id) returns success whether or not a
\* transaction with that id and owner exists; it removes that transaction
\* and no other, so a transaction of another user with that id stays stored
\* with its entries; and a call that finds no such transaction, as a
\* second call does, leaves the store unchanged.
C21_IdempotentDelete ==
    [][\A w \in DOMAIN writer : DeleteStep(w) => DeletesOnlyTarget(w)]_vars

\* a delete by another user than the owner has returned success and the
\* transaction is still stored with its entries; and a delete has been
\* repeated after the transaction was gone
C21_Witness ==
    \E w \in DOMAIN writer, t \in transaction :
        /\ writer[w].pc = "idle" /\ writer[w].call = "delete"
        /\ writer[w].result = "Ok"
        /\ writer[w].id = t.id
        /\ writer[w].update.user_id # t.user_id
        /\ \E e \in transaction_entry : e.transaction_id = t.id
        /\ \E v \in DOMAIN writer :
            /\ v # w /\ writer[v].call = "delete" /\ writer[v].result = "Ok"
            /\ writer[v].id \in DOMAIN committed
            /\ \A x \in transaction : x.id # writer[v].id

(***************************************************************************)
(* C27: what persist_transaction returns                                   *)
(***************************************************************************)
\* connection w has returned from a successful persist_transaction
PersistReturned(w) ==
    /\ writer[w].pc = "idle"
    /\ writer[w].call = "persist"
    /\ writer[w].result = "Ok"

\* C27 (as claimed): the Transaction a successful persist_transaction returns
\* carries the stored id and created_at, the fields of the call and exactly
\* the entries given in the call, in the order given, also when a delete of
\* that transaction commits right after the call's commit.  (No
\* update_transaction is successful, claim C19.)
C27_ReturnedRow ==
    \A w \in DOMAIN writer :
        PersistReturned(w) =>
            /\ writer[w].row.id = writer[w].id
            /\ writer[w].row.user_id = writer[w].update.user_id
            /\ writer[w].row.date = writer[w].update.date
            /\ writer[w].row.payee = writer[w].update.payee
            /\ writer[w].row.notes = writer[w].update.notes
            /\ writer[w].row.entries = writer[w].update.entries

\* a is b in some order
IsPermutation(a, b) ==
    /\ Len(a) = Len(b)
    /\ \E f \in [1..Len(a) -> 1..Len(a)] :
        /\ \A i, j \in 1..Len(a) : i # j => f[i] # f[j]
        /\ \A i \in 1..Len(a) : a[i] = b[f[i]]

\* What is returned instead: the fields of the call with the entries the
\* SELECT after the commit found, which are the entries of the call in some
\* order, or none when the transaction was deleted in between.
ReturnedRowSelectedAfterCommit ==
    \A w \in DOMAIN writer :
        PersistReturned(w) =>
            /\ writer[w].row.id = writer[w].id
            /\ writer[w].row.user_id = writer[w].update.user_id
            /\ writer[w].row.date = writer[w].update.date
            /\ writer[w].row.payee = writer[w].update.payee
            /\ writer[w].row.notes = writer[w].update.notes
            /\ \/ IsPermutation(writer[w].row.entries, writer[w].update.entries)
               \/ /\ writer[w].row.entries = << >>
                  /\ \A t \in transaction : t.id # writer[w].id

(***************************************************************************)
(* RedisRateLimiter::is_limited (rate_limit/redis.rs).  The cache key is   *)
(* the key and the minute of the hour of Utc::now(); a call reads the hit  *)
(* count with GET and, unless it is over the limit, increments it and sets *)
(* its expiry in a second round trip (MULTI INCR EXPIRE EXEC).  Other      *)
(* callers run between the two.                                            *)
(***************************************************************************)
\* EXPIRE cache_key 59
EXPIRE_SECONDS == 59

\* the granularity of now.format("%M")
SECONDS_PER_MINUTE == 60

\* the largest max_req_per_min the calls are made with
MaxReqPerMin == 2

\* the clock stops here: a whole minute and the start of the next
MaxClock == 61

\* at most this many is_limited calls are made
MaxCalls == 5

Callers == {"c1", "c2"}

Keys == {"k"}

\* now.format("%M")
current_minute(time) == (time \div SECONDS_PER_MINUTE) % 60

\* format!("{}:{}", key, current_minute)
cache_key(key, time) == <<key, current_minute(time)>>

\* a key set with EXPIRE is gone once its time has come
Exists(k) == k \in DOMAIN cache /\ clock < cache[k].expires_at

\* conn.get(&cache_key): Option<u64>
get(k) == IF Exists(k) THEN [some |-> TRUE, hit_count |-> cache[k].hits]
          ELSE [some |-> FALSE, hit_count |-> 0]

\* if hit_count > max_req_per_min
over_limit(hit_count, limit) == hit_count > limit

\* (now + 1 minute).duration_trunc(1 minute)
limit_expiration(time) ==
    ((time + SECONDS_PER_MINUTE) \div SECONDS_PER_MINUTE) * SECONDS_PER_MINUTE

NoCall(last_result, calls) ==
    [pc |-> "idle", key |-> NoValue, cache_key |-> NoValue, result |-> last_result,
     calls |-> calls]

TotalCalls == LET c1 == caller["c1"].calls c2 == caller["c2"].calls IN c1 + c2

\* get_connection; Utc::now(); GET cache_key; the comparison with the limit
IsLimitedGet(c) ==
    /\ caller[c].pc = "idle"
    /\ TotalCalls < MaxCalls
    /\ \E key \in Keys :
        LET k == cache_key(key, clock)
            hits == get(k)
        IN  IF hits.some /\ over_limit(hits.hit_count, max_req_per_min)
            THEN caller' = [caller EXCEPT ![c] =
                    [NoCall([kind |-> "LimitedUntil", until |-> limit_expiration(clock)],
                            caller[c].calls + 1) EXCEPT !.cache_key = k]]
            ELSE caller' = [caller EXCEPT ![c] =
                    [pc |-> "incr", key |-> key, cache_key |-> k,
                     result |-> [kind |-> "none", until |-> 0],
                     calls |-> caller[c].calls + 1]]
    /\ UNCHANGED <<cache, clock, max_req_per_min, allowed, storeVars, pureVars>>

\* MULTI; INCR cache_key; EXPIRE cache_key 59; EXEC; Ok(NotLimited)
IsLimitedIncr(c) ==
    /\ caller[c].pc = "incr"
    /\ LET k == caller[c].cache_key
           hits == IF Exists(k) THEN cache[k].hits + 1 ELSE 1
       IN  /\ cache' = [x \in DOMAIN cache \cup {k} |->
                          IF x = k THEN [hits |-> hits, expires_at |-> clock + EXPIRE_SECONDS]
                          ELSE cache[x]]
           /\ allowed' = [x \in DOMAIN allowed \cup {k} |->
                          IF x = k
                          THEN (IF k \in DOMAIN allowed THEN allowed[k] ELSE 0) + 1
                          ELSE allowed[x]]
           /\ caller' = [caller EXCEPT ![c] =
                  [NoCall([kind |-> "NotLimited", until |-> 0], caller[c].calls)
                      EXCEPT !.cache_key = k]]
    /\ UNCHANGED <<clock, max_req_per_min, storeVars, pureVars>>

\* time passes
Tick ==
    /\ clock < MaxClock
    /\ clock' = clock + 1
    /\ UNCHANGED <<cache, max_req_per_min, caller, allowed, storeVars, pureVars>>

InitRate ==
    /\ NoStore
    /\ NoPure
    /\ cache = << >>
    /\ clock = 0
    /\ max_req_per_min \in 1..MaxReqPerMin
    /\ caller = [c \in Callers |-> NoCall([kind |-> "none", until |-> 0], 0)]
    /\ allowed = << >>

NextRate ==
    \/ \E c \in Callers : IsLimitedGet(c) \/ IsLimitedIncr(c)
    \/ Tick

SpecRate == InitRate /\ [][NextRate]_vars

\* C24 (as claimed): for every key and every limit N, among the is_limited
\* calls made for that key within one clock minute, sequential or
\* concurrent, at most N return NotLimited.
C24_RateLimitBound ==
    \A k \in DOMAIN allowed : allowed[k] <= max_req_per_min

\* What one caller alone gets while the key lives: N + 1 calls pass, because
\* a hit count equal to the limit is not over it.
RateLimitSequential ==
    (caller["c2"].calls = 0 /\ clock < EXPIRE_SECONDS)
        => \A k \in DOMAIN allowed : allowed[k] <= max_req_per_min + 1

(***************************************************************************)
(* The create_transaction and update_transaction handlers                  *)
(* (http/handlers.rs): the currencies of the codes the request uses are    *)
(* fetched, the request is converted by try_into_domain, the command is    *)
(* called and its result is matched.  A panic ends the handler's task      *)
(* without a response: outcome "abort".                                    *)
(*   rep[w]      the request the handler on connection w was called with   *)
(*   response[w] how far the handler is and how it ended                   *)
(***************************************************************************)
\* the requests: by position the entries are on accounts E, A, A
RequestAccounts == <<(<<"E">>), (<<"A">>), (<<"A">>)>>

Request(amounts) ==
    [date |-> 1, payee |-> "P", notes |-> "",
     entries |-> [i \in 1..Len(amounts) |->
                    [account |-> RequestAccounts[i], amount |-> amounts[i]]]]

MaxI32Text == <<"2", "1", "4", "7", "4", "8", "3", "6", "4", "7">>

Requests ==
    {Request(amounts) : amounts \in
        {<<SomeRep("USD", <<"1">>), SomeRep("USD", <<"-", "1">>)>>,
         <<SomeRep("USD", <<"1">>), NoneRep>>,
         <<SomeRep("USD", <<"x">>), SomeRep("USD", <<"-", "1">>)>>,
         <<SomeRep("USD", <<"1", ".", "0", "0", "5">>), SomeRep("USD", <<"-", "1">>)>>,
         <<SomeRep("XXX", <<"1">>), SomeRep("USD", <<"-", "1">>)>>,
         <<SomeRep("USD", <<"1">>), SomeRep("USD", <<"1">>)>>,
         <<SomeRep("USD", <<"1">>), SomeRep("JPY", <<"1">>), NoneRep>>,
         <<SomeRep("USD", <<"1">>), NoneRep, NoneRep>>,
         <<SomeRep("USD", <<"1">>), SomeRep("USD", <<"-", "1">>), NoneRep>>,
         <<SomeRep("USD", << >>), SomeRep("USD", <<"-">>)>>,
         <<SomeRep("JPY", MaxI32Text), SomeRep("JPY", MaxI32Text),
           SomeRep("JPY", <<"2">>)>>,
         << >>}}

NoRequest == [handler |-> "none", user_id |-> "", transaction_id |-> 0,
              body |-> Request(<< >>)]

NoTransaction == DomainTransaction("", 0, "", "", << >>)

NotCalled == [stage |-> "none", outcome |-> "none", cause |-> "none",
              transaction |-> NoTransaction]

\* new_transaction.used_currency_codes()
used_currency_codes(r) ==
    {r.entries[i].amount.currency : i \in {j \in 1..Len(r.entries) : r.entries[j].amount.some}}

\* queries.get_currencies_by_code(codes): the rows of table currency with
\* one of the codes, by code
get_currencies_by_code(codes) ==
    [code \in codes \cap DOMAIN CurrencyTable |-> CurrencyTable[code]]

\* the domain NewTransaction that try_into_domain returns
ConvertedTransaction(user_id, r, entries) ==
    DomainTransaction(user_id, r.date, r.payee, r.notes,
        [i \in 1..Len(entries) |->
            DomainEntry(entries[i].account, entries[i].currency, entries[i].value)])

\* the handler is called: Claims, Path and Json are extracted
HandlerBegin(w) ==
    /\ response[w].stage \in {"none", "done"}
    /\ writer[w].pc = "idle"
    /\ \E handler \in {"create", "update"}, user_id \in inputs.users,
          id \in 1..inputs.max_tx, body \in Requests :
        rep' = [rep EXCEPT ![w] =
                  [handler |-> handler, user_id |-> user_id,
                   transaction_id |-> IF handler = "update" THEN id ELSE 0,
                   body |-> body]]
    /\ response' = [response EXCEPT ![w] = [NotCalled EXCEPT !.stage = "begin"]]
    /\ UNCHANGED <<pc, overflow_checks, data, result, currency, raw_amount, parsed,
                   value, formatted, storeVars, rateVars>>

\* Err(error) of get_currencies_by_code: return Err(ApiError::InternalServerError)
HandlerCurrenciesFail(w) ==
    /\ response[w].stage = "begin"
    /\ inputs.faults
    /\ response' = [response EXCEPT ![w] =
            [NotCalled EXCEPT !.stage = "done", !.outcome = "InternalServerError",
                              !.cause = "currencies"]]
    /\ UNCHANGED <<pc, overflow_checks, data, result, rep, currency, raw_amount, parsed,
                   value, formatted, storeVars, rateVars>>

\* try_into_domain(user_id, used_currencies): Err(error) => return
\* Ok(error.into()), which is BadRequest
HandlerConvert(w) ==
    /\ response[w].stage = "begin"
    /\ LET r == rep[w].body
           converted == try_into_domain(r, get_currencies_by_code(used_currency_codes(r)),
                                        overflow_checks)
       IN  response' = [response EXCEPT ![w] =
             CASE converted.kind = "Err" ->
                    [NotCalled EXCEPT !.stage = "done", !.outcome = "BadRequest",
                                      !.cause = "conversion"]
               [] converted.kind = "panic" ->
                    [NotCalled EXCEPT !.stage = "done", !.outcome = "abort",
                                      !.cause = "conversion"]
               [] OTHER ->
                    [NotCalled EXCEPT !.stage = "converted",
                        !.transaction = ConvertedTransaction(rep[w].user_id, r,
                                                             converted.entries)]]
    /\ UNCHANGED <<pc, overflow_checks, data, result, rep, currency, raw_amount, parsed,
                   value, formatted, storeVars, rateVars>>

\* ledger_commands.persist_transaction(transaction) or
\* ledger_commands.update_transaction(transaction_id, transaction)
HandlerCallCommand(w) ==
    /\ response[w].stage = "converted"
    /\ IF rep[w].handler = "create"
       THEN InsertTransaction(w, response[w].transaction)
       ELSE UpdateCall(w, rep[w].transaction_id, response[w].transaction)
            /\ UNCHANGED <<now, next_id>>
    /\ response' = [response EXCEPT ![w].stage = "called"]
    /\ UNCHANGED <<pc, overflow_checks, data, result, rep, currency, raw_amount, parsed,
                   value, formatted>>

\* the create_transaction handler's outcome for what the command returned
create_response(command_result) ==
    IF command_result = "Ok" THEN "Created" ELSE "InternalServerError"

\* the match on what the command returned
HandlerRespond(w) ==
    /\ response[w].stage = "called"
    /\ writer[w].pc = "idle"
    /\ response' = [response EXCEPT ![w].stage = "done", ![w].cause = "command",
            ![w].outcome = IF rep[w].handler = "create"
                           THEN create_response(writer[w].result)
                           ELSE update_response(writer[w].result)]
    /\ UNCHANGED <<pc, overflow_checks, data, result, rep, currency, raw_amount, parsed,
                   value, formatted, storeVars, rateVars>>

\* at most this many transaction ids are generated while requests are served
MaxHandlerTx == 1

\* one connection serves the requests of one user, one after the other; the
\* build has overflow checks or not, and the storage is one where any
\* statement may fail or one that works
HandlerInputs ==
    [users |-> {"u1"}, writers |-> {"w1"}, new_transactions |-> {},
     filters |-> {NoFilter}, faults |-> TRUE, ticks |-> {1}, max_tx |-> MaxHandlerTx]

InitHandler ==
    /\ NoRate
    /\ \E faults \in BOOLEAN : inputs = [HandlerInputs EXCEPT !.faults = faults]
    /\ transaction = {} /\ transaction_entry = {} /\ account = {}
    /\ now = 0
    /\ next_id = 1
    /\ writer = [w \in HandlerInputs.writers |-> Idle("none", NoValue)]
    /\ reader = NoReader
    /\ committed = << >>
    /\ pc = NoValue
    /\ overflow_checks \in BOOLEAN
    /\ data = NoValue /\ result = NoValue
    /\ rep = [w \in HandlerInputs.writers |-> NoRequest]
    /\ response = [w \in HandlerInputs.writers |-> NotCalled]
    /\ currency = NoValue /\ raw_amount = NoValue /\ parsed = NoValue
    /\ value = NoValue /\ formatted = NoValue

NextHandler ==
    \E w \in DOMAIN writer :
        \/ HandlerBegin(w)
        \/ HandlerCurrenciesFail(w)
        \/ HandlerConvert(w)
        \/ HandlerCallCommand(w)
        \/ HandlerRespond(w)
        \/ PersistInsertEntries(w)
        \/ PersistCommit(w)
        \/ PersistSelectEntries(w)
        \/ PersistFails(w)
        \/ UpdateTransactionRow(w)
        \/ UpdateDeleteEntries(w)
        \/ UpdateInsertEntries(w)
        \/ UpdateFails(w)

SpecHandler == InitHandler /\ [][NextHandler]_vars

(***************************************************************************)
(* C22: invalid input versus system failure                                *)
(***************************************************************************)
\* an amount the caller got wrong: a currency that is not in the table, a
\* text that is not a decimal number, more decimals than the currency has,
\* or a number outside the i32 range
AmountFailure(a) ==
    /\ a.some
    /\ \/ a.currency \notin DOMAIN CurrencyTable
       \/ LET text == Cleaned(a.value)
              m == CurrencyTable[a.currency].minor_units
          IN  \/ ~IsDecimalText(text)
              \/ DecimalsGiven(text) > m
              \/ ~ScaledFits(text, m)

\* the entries with the numbers their texts denote
ExactEntries(body) ==
    [i \in 1..Len(body.entries) |->
        [account |-> body.entries[i].account,
         amount |-> IF body.entries[i].amount.some
                    THEN Some(body.entries[i].amount.currency,
                              Scaled(Cleaned(body.entries[i].amount.value),
                                     CurrencyTable[body.entries[i].amount.currency].minor_units))
                    ELSE None]]

\* the amounts do not sum to zero and no single missing amount can make them
UnbalancedFailure(body) ==
    LET missing == Cardinality(Missing(ExactEntries(body)))
        unbalanced == Cardinality(UnbalancedInput(ExactEntries(body)))
    IN  \/ missing = 0 /\ unbalanced > 0
        \/ missing = 1 /\ unbalanced > 1
        \/ missing > 1

InputFailure(body) ==
    \/ \E i \in 1..Len(body.entries) : AmountFailure(body.entries[i].amount)
    \/ UnbalancedFailure(body)

\* the update's target is not in the store (one connection: no other call
\* changes the table while the handler runs, and no update commits)
TargetMissing(w) ==
    /\ rep[w].handler = "update"
    /\ TargetRows(rep[w].transaction_id, rep[w].user_id) = {}

\* the storage failed the handler: the currencies query, or a statement or
\* the commit of the command
StorageFailed(w) ==
    \/ response[w].cause = "currencies"
    \/ response[w].cause = "command" /\ writer[w].result \in {"Err", "DatabaseError"}

HandlerOutcomes(w, failure) ==
    response[w].stage = "done" =>
        /\ (failure /\ response[w].cause # "currencies")
              => response[w].outcome = "BadRequest"
        /\ response[w].outcome = "BadRequest" => response[w].cause = "conversion"
        /\ (response[w].cause = "command" /\ TargetMissing(w)
                /\ writer[w].result # "DatabaseError")
              => response[w].outcome = "NotFound"
        /\ response[w].outcome = "NotFound"
              => response[w].cause = "command" /\ TargetMissing(w)
        /\ StorageFailed(w) => response[w].outcome = "InternalServerError"

\* C22 (as claimed): in the create_transaction and update_transaction
\* handlers every caller-input failure (an amount that is not a number, too
\* many decimals, an unrecognized currency code, unbalanced or unbalanceable
\* entries) ends in BadRequest with the command never called, so with nothing
\* written; a missing update target ends in NotFound; every storage fault
\* ends in InternalServerError and never in BadRequest, NotFound or success;
\* an input failure never ends in an internal error or an abort.
C22_InputVersusSystemFailure ==
    \A w \in DOMAIN response : HandlerOutcomes(w, InputFailure(rep[w].body))

\* the request has an amount text without a digit, or amounts whose exact
\* sum in some currency is outside the i32 range
WithoutDigitsOrOverflowing(body) ==
    \/ \E i \in 1..Len(body.entries) :
          body.entries[i].amount.some /\ ~HasDigit(body.entries[i].amount.value)
    \/ /\ \A i \in 1..Len(body.entries) : ~AmountFailure(body.entries[i].amount)
       /\ \E c \in InputCurrencies(ExactEntries(body)) :
            InputSum(ExactEntries(body), c)[1] \notin (-32768)..32767

\* What the handlers do: the outcomes are as claimed for every request but
\* those with an amount text without digits or with sums outside i32.
HandlerOutcomesButDigitsAndOverflow ==
    \A w \in DOMAIN response :
        HandlerOutcomes(w, InputFailure(rep[w].body)
                           /\ ~WithoutDigitsOrOverflowing(rep[w].body))

(***************************************************************************)
(* get_account_balance and get_transaction (queries/postgres.rs).  Each    *)
(* runs its queries one after the other on a connection, outside any       *)
(* database transaction, so a write may commit between two of them.        *)
(***************************************************************************)
\* the codes of table currency in the order of ORDER BY code
CurrencyCodes == <<"JPY", "USD">>

\* FROM transaction_entry e JOIN account a ON a.id = e.account_id
\* JOIN transaction t ON t.id = e.transaction_id
\* WHERE t.user_id = $1 AND (a.name = $2 OR a.name LIKE $2 || ':%')
BalanceRows(transactions, entries, accounts, user_id, account_name) ==
    {e \in entries : \E a \in accounts, t \in transactions :
        /\ a.id = e.account_id
        /\ t.id = e.transaction_id
        /\ t.user_id = user_id
        /\ \/ a.name = account_name
           \/ Like(a.name, account_name \o <<":", "%">>)}

\* SUM(e.amount) as a BigInt: the exact sum, as <<high, low>>
RECURSIVE SumOfRows(_)
SumOfRows(rows) ==
    IF rows = {} THEN <<0, 0>>
    ELSE LET e == CHOOSE x \in rows : TRUE
             rest == SumOfRows(rows \ {e})
         IN  Carry(<<rest[1] + Split(e.amount)[1], rest[2] + Split(e.amount)[2]>>)

\* GROUP BY e.currency ORDER BY e.currency: one CurrencyBalance per currency
\* that has a row
CurrencyBalances(rows) ==
    LET codes == SelectSeq(CurrencyCodes, LAMBDA c : \E e \in rows : e.currency = c)
    IN  [i \in 1..Len(codes) |->
            [currency |-> codes[i],
             amount |-> SumOfRows({e \in rows : e.currency = codes[i]})]]

\* currency.filter(code.eq_any(currency_codes)).order_by(code)
CurrenciesByCode(codes) ==
    LET found == SelectSeq(CurrencyCodes, LAMBDA c : c \in codes)
    IN  [i \in 1..Len(found) |-> CurrencyTable[found[i]]]

\* i64 to i32: amount.amount.try_into()
FitsI32(sum) == sum[1] \in (-32768)..32767

I32Of(sum) == sum[1] * 65536 + sum[2]

\* currencies.drain(..).zip(amounts), then from_minor of each pair; the
\* unwrap() of try_into() panics on a sum outside i32
account_balance(transactions, entries, accounts, user_id, account_name) ==
    LET amounts == CurrencyBalances(
                       BalanceRows(transactions, entries, accounts, user_id, account_name))
        currencies == CurrenciesByCode({amounts[i].currency : i \in 1..Len(amounts)})
        pairs == IF Len(currencies) < Len(amounts) THEN Len(currencies) ELSE Len(amounts)
    IN  IF \E i \in 1..pairs : ~FitsI32(amounts[i].amount)
        THEN [kind |-> "panic", balances |-> << >>]
        ELSE [kind |-> "Ok",
              balances |-> [i \in 1..pairs |->
                    [currency |-> currencies[i], value |-> I32Of(amounts[i].amount)]]]

\* get_account_balance(user_id, account_name)
GetAccountBalance ==
    /\ reader.pc = "idle"
    /\ \E user_id \in inputs.users, account_name \in inputs.filters \ {NoFilter} :
        LET balance == account_balance(transaction, transaction_entry, account,
                                       user_id, account_name)
        IN  reader' = [NoReader EXCEPT
                !.pc = IF balance.kind = "Ok" THEN "balance" ELSE "balance_panic",
                !.query = [user_id |-> user_id, account |-> account_name,
                           after |-> NoCursor],
                !.items = balance.balances,
                !.first_table = transaction]
    /\ UNCHANGED <<tables, now, next_id, writer, inputs, committed, pureVars, rateVars>>

\* transaction.filter(user_id.eq(user_id).and(id.eq(transaction_id)))
\*     .get_result().optional(): the row, or Ok(None)
GetTransactionRows(transactions, user_id, transaction_id) ==
    {t \in transactions : t.user_id = user_id /\ t.id = transaction_id}

\* the first query of get_transaction
GetTransactionRow ==
    /\ reader.pc = "idle"
    /\ \E user_id \in inputs.users, transaction_id \in 1..inputs.max_tx :
        LET rows == GetTransactionRows(transaction, user_id, transaction_id)
            query == [user_id |-> user_id, account |-> NoFilter, after |-> NoCursor,
                      transaction_id |-> transaction_id]
        IN  IF rows = {}
            THEN reader' = [NoReader EXCEPT !.pc = "get_none", !.query = query]
            ELSE \E row \in rows :
                    reader' = [NoReader EXCEPT !.pc = "get_row", !.query = query,
                                   !.transactions_data = <<row>>]
    /\ UNCHANGED <<tables, now, next_id, writer, inputs, committed, pureVars, rateVars>>

\* TransactionEntry::belonging_to(&transaction).inner_join(account)
\*     .inner_join(currency).order(order), and try_into_domain(&entries)
GetTransactionEntries ==
    /\ reader.pc = "get_row"
    /\ LET row == reader.transactions_data[1]
       IN  \E entries \in OrderedEntries({e \in transaction_entry :
                                            e.transaction_id = row.id}) :
            reader' = [reader EXCEPT !.pc = "get_done",
                !.items = <<transaction_try_into_domain(row, entries)>>]
    /\ UNCHANGED <<tables, now, next_id, writer, inputs, committed, pureVars, rateVars>>

\* the call returned; the client makes another
ReaderReturns ==
    /\ reader.pc \in {"done", "failed", "balance", "balance_panic", "get_none", "get_done"}
    /\ reader' = NoReader
    /\ UNCHANGED <<tables, now, next_id, writer, inputs, committed, pureVars, rateVars>>

(***************************************************************************)
(* Reading while writing: one connection persists, updates and deletes     *)
(* transactions of two users while a client lists, gets and asks for       *)
(* balances.                                                               *)
(***************************************************************************)
\* at most this many transaction ids are generated while the client reads
MaxReadTx == 2

\* "A:B" is below "A", "As" only shares a prefix with it; one amount is the
\* largest i32
ReadEntryLists ==
    {<<DomainEntry(<<"A", ":", "B">>, "USD", 1), DomainEntry(<<"C">>, "USD", -1)>>,
     <<DomainEntry(<<"A">>, "USD", MaxI32), DomainEntry(<<"C">>, "USD", -MaxI32)>>,
     <<DomainEntry(<<"A">>, "JPY", 1), DomainEntry(<<"A", "s">>, "JPY", -1)>>}

ReadInputs ==
    [users |-> {"u1", "u2"}, writers |-> {"w1"},
     new_transactions |->
        {DomainTransaction(user_id, 1, "P", "", entries) :
            user_id \in {"u1", "u2"}, entries \in ReadEntryLists},
     filters |-> {NoFilter, <<"A">>, <<"%">>},
     faults |-> FALSE, ticks |-> {1}, max_tx |-> MaxReadTx]

InitRead == InitStore(ReadInputs)

NextRead ==
    \/ \E w \in DOMAIN writer :
        \/ PersistInsertTransaction(w)
        \/ PersistInsertEntries(w)
        \/ PersistCommit(w)
        \/ PersistSelectEntries(w)
        \/ UpdateBegin(w)
        \/ UpdateTransactionRow(w)
        \/ UpdateDeleteEntries(w)
        \/ UpdateInsertEntries(w)
        \/ DeleteBegin(w)
        \/ DeleteTransaction(w)
    \/ ListFirstPage
    \/ ListEntries
    \/ GetAccountBalance
    \/ GetTransactionRow
    \/ GetTransactionEntries
    \/ ReaderReturns

SpecRead == InitRead /\ [][NextRead]_vars

(***************************************************************************)
(* C23: the point balance                                                  *)
(***************************************************************************)
\* the entries of the user's transactions on the account A or below it
TreeEntries(user_id, A) ==
    {e \in transaction_entry :
        /\ \E t \in transaction : t.id = e.transaction_id /\ t.user_id = user_id
        /\ \E a \in account : a.id = e.account_id /\ InAccountTree(a.name, A)}

\* the balances are one per currency of the entries, each with the exact sum
\* of that currency's entries and the metadata of that currency
BalancesOf(balances, rows) ==
    /\ \A c \in {e.currency : e \in rows} :
          Cardinality({i \in 1..Len(balances) : balances[i].currency.code = c}) = 1
    /\ \A i \in 1..Len(balances) :
          LET of_currency == {e \in rows : e.currency = balances[i].currency.code}
          IN  /\ of_currency # {}
              /\ balances[i].currency = CurrencyTable[balances[i].currency.code]
              /\ Split(balances[i].value) = SumOfRows(of_currency)

\* get_account_balance has returned and the tables are as it read them
BalanceReturned ==
    reader.pc \in {"balance", "balance_panic"} /\ transaction = reader.first_table

\* C23 (as claimed): get_account_balance(user, A) returns exactly one
\* CurrencyAmount for each currency that has at least one entry, in a
\* transaction owned by that user, on the account A or on an account named
\* A + ':' + anything; its value is the exact sum of those entries' amounts
\* and it is paired with the metadata of that same currency; entries of
\* other users and of unrelated accounts never contribute.
C23_PointBalance ==
    BalanceReturned =>
        /\ reader.pc = "balance"
        /\ BalancesOf(reader.items, TreeEntries(reader.query.user_id, reader.query.account))

\* What get_account_balance returns for an account name without the LIKE
\* characters: the claimed balances whenever every sum is an i32, and no value
\* (the conversion panics) otherwise.
PointBalancePlain ==
    (/\ BalanceReturned
     /\ \A i \in 1..Len(reader.query.account) :
            reader.query.account[i] \notin {"%", "_", "\\"})
        => LET rows == TreeEntries(reader.query.user_id, reader.query.account)
               fits == \A c \in {e.currency : e \in rows} :
                          FitsI32(SumOfRows({e \in rows : e.currency = c}))
           IN  /\ reader.pc = "balance" <=> fits
               /\ fits => BalancesOf(reader.items, rows)

(***************************************************************************)
(* C26: what readers see while transactions are written and deleted        *)
(***************************************************************************)
\* the entries a list item carries, as domain entries
ItemEntries(item) ==
    [k \in 1..Len(item.entries) |->
        DomainEntry(item.entries[k].account.name, item.entries[k].entry.currency,
                    item.entries[k].entry.amount)]

\* the returned transactions with their entries: of a list, or of a get
ReturnedTransactions ==
    IF reader.pc = "done"
    THEN {[id |-> reader.items[i].transaction.id,
           entries |-> ItemEntries(reader.items[i])] : i \in 1..Len(reader.items)}
    ELSE IF reader.pc = "get_done"
    THEN {[id |-> reader.items[i].id, entries |-> reader.items[i].entries] :
              i \in 1..Len(reader.items)}
    ELSE {}

\* the entries are those of the version of the transaction that was committed
CompleteVersion(r) == r.entries = committed[r.id].entries

SumsToZero(entries) ==
    \A c \in {entries[k].currency : k \in 1..Len(entries)} :
        ExactSum([k \in 1..Len(entries) |->
                    IF entries[k].currency = c THEN entries[k].amount ELSE 0]) = <<0, 0>>

\* C26 (as claimed): under every interleaving of a list or get call with
\* committed update_transaction or delete_transaction calls on the same
\* transaction, each transaction the reader returns carries a non-empty entry
\* set that is the complete entry set of one single committed version of that
\* transaction, never empty and never a mixture, and that sums to zero per
\* currency.
C26_NoPartialEntries ==
    \A r \in ReturnedTransactions :
        /\ r.entries # << >>
        /\ CompleteVersion(r)
        /\ SumsToZero(r.entries)

\* What readers see: the complete entries of the committed version, or no
\* entry at all when the transaction was deleted between the query for the
\* row and the query for its entries.
CompleteEntriesOrNone ==
    \A r \in ReturnedTransactions :
        \/ CompleteVersion(r) /\ SumsToZero(r.entries)
        \/ r.entries = << >> /\ r.id \notin {t.id : t \in transaction}

(***************************************************************************)
(* C28: owner isolation of reads.  A read of user U on the stored tables   *)
(* is compared with the same read on the tables without every row of the   *)
(* other users; two stores that differ only in rows of other users have    *)
(* these smaller tables in common.                                         *)
(***************************************************************************)
OwnTransactions(U) == {t \in transaction : t.user_id = U}

OwnEntries(U) ==
    {e \in transaction_entry : \E t \in OwnTransactions(U) : e.transaction_id = t.id}

OwnAccounts(U) == {a \in account : a.user_id = U}

\* the queries list may make for U: each filter, no cursor or the cursor of
\* any stored row
ListQueries(U) ==
    {[user_id |-> U, account |-> account_filter, after |-> cursor] :
        account_filter \in inputs.filters,
        cursor \in {NoCursor} \cup
            {[after_date |-> t.date, after_created_at |-> t.created_at] : t \in transaction}}

\* every read of U gives on the stored tables what it gives on U's own rows
SameOnOwnRows(U) ==
    /\ \A query \in ListQueries(U) :
          Eligible(query)
             = EligibleOn(OwnTransactions(U), OwnEntries(U), OwnAccounts(U), query)
    /\ \A id \in 1..inputs.max_tx :
          /\ GetTransactionRows(transaction, U, id)
                = GetTransactionRows(OwnTransactions(U), U, id)
          /\ GetTransactionRows(transaction, U, id) # {}
                => {e \in transaction_entry : e.transaction_id = id}
                      = {e \in OwnEntries(U) : e.transaction_id = id}
    /\ \A e \in OwnEntries(U) :
          {a \in account : a.id = e.account_id}
             = {a \in OwnAccounts(U) : a.id = e.account_id}
    /\ \A account_name \in inputs.filters \ {NoFilter} :
          account_balance(transaction, transaction_entry, account, U, account_name)
             = account_balance(OwnTransactions(U), OwnEntries(U), OwnAccounts(U),
                               U, account_name)

\* what the reader holds is U's: rows of U, entries of those rows, accounts of U
OnlyOwnData ==
    /\ reader.pc \in {"page", "done", "get_row", "get_done"}
          => \A i \in 1..Len(reader.transactions_data) :
                reader.transactions_data[i].user_id = reader.query.user_id
    /\ reader.pc = "done"
          => \A i \in 1..Len(reader.items) :
                /\ reader.items[i].transaction.user_id = reader.query.user_id
                /\ \A k \in 1..Len(reader.items[i].entries) :
                      /\ reader.items[i].entries[k].entry.transaction_id
                            = reader.items[i].transaction.id
                      /\ reader.items[i].entries[k].account.user_id = reader.query.user_id
    /\ reader.pc = "get_done"
          => \A i \in 1..Len(reader.items) :
                /\ reader.items[i].user_id = reader.query.user_id
                /\ reader.items[i].id = reader.query.transaction_id

\* C28: after any sequence of persist, update and delete calls by several
\* users, list(U), get(U, id) and get_account_balance(U, account) return only
\* data of transactions whose user_id is U, and their results are those they
\* have on a store without the transactions, entries and accounts of the
\* other users; this holds with and without an account filter.
C28_OwnerIsolation ==
    /\ OnlyOwnData
    /\ \A U \in inputs.users : SameOnOwnRows(U)

\* C28 witness: a listing with an account filter returned a transaction of
\* its user while the other user has a transaction on an account of the same
\* name
C28_Witness ==
    /\ reader.pc = "done"
    /\ reader.query.account = <<"A">>
    /\ Len(reader.items) > 0
    /\ \E t \in transaction, e \in transaction_entry, a \in account :
          /\ t.user_id # reader.query.user_id
          /\ e.transaction_id = t.id /\ e.account_id = a.id
          /\ a.name = <<"A">>

====
